---------------------------- MODULE Spec2Model ----------------------------
(***************************************************************************)
(* Model of the Termite / Nano plugins platform (smokorg/nano-platform).   *)
(*                                                                         *)
(*   - termite.platform.PluginContainer: the plugin life-cycle             *)
(*   - nanopp.dependencies.DependenciesManager: the install order          *)
(*   - termite.dependencies.PluginDependenciesManager: the requirement     *)
(*     graph, its providers and the reverse dependency order               *)
(*   - termite.platform.PluginManager and the batch calls of Platform      *)
(*     over the managed containers                                         *)
(*   - termite.dependencies.Graph: its vertices and edges,                 *)
(*     find_circular_rings and the GraphIterator                           *)
(*                                                                         *)
(* Each part has its own specifications (SpecContainer, SpecInstallOrder,  *)
(* SpecRequires and SpecProviders, SpecPlugins, SpecRings, SpecIterate and *)
(* SpecEndpoints, and those of the later sections); a specification leaves *)
(* the variables of the other parts unchanged.                             *)
(***************************************************************************)
EXTENDS Integers, Sequences, FiniteSets, TLC

VARIABLES
    \* ---- termite.platform.PluginContainer (one container; the container of
    \* nanopp.platform in SpecNanoppContainer) ----
    plugin_classes,   \* manifest.plugin_classes as the loader will deliver it
    plugin,           \* self.plugin: "None" or "loaded"
    plugin_state,     \* self.plugin_state
    plugin_hooks,     \* self.plugin_hooks: [is_none, items]
    call,             \* the last life-cycle call: operation, state it was made in,
                      \* the hooks that raise in it, and how it returned
    calls,            \* the hook methods that call invoked, in order
    scenario          \* progress of the call sequence activate, deactivate,
                      \* activate, ... started in Installed with hooks that return

VARIABLES
    \* ---- nanopp.dependencies.DependenciesManager ----
    dependencies,     \* self.dependencies, in insertion order: name,
                      \* depends_on, dependants, available
    install_order,    \* what the last call returned, NotCalled after another call
    dm_result         \* how the last DependenciesManager call returned

VARIABLES
    \* ---- termite.dependencies.PluginDependenciesManager ----
    dependencies_graph,  \* self.dependencies_graph with its PluginDependency
                         \* vertices (marks, providers) and Require edges (marks)
    order,               \* what the last reverese_dependency_order() returned,
                         \* NotCalled after another call
    order_calls,         \* how many times reverese_dependency_order() was called
    pdm_result           \* how the last PluginDependenciesManager call returned

VARIABLES
    \* ---- termite.platform.PluginManager (with the Platform's batch loops);
    \* its dependencies_manager is the dependencies_graph above ----
    containers,       \* the PluginContainer objects add_plugin created, in the
                      \* order of creation: plugin_ref, manifest, plugin_state,
                      \* plugin_hooks
    plugins_by_ref,   \* self.plugins_by_ref, in insertion order: key, pc
    plugins_by_id,    \* self.plugins_by_id, in insertion order: key, pc
    pm_call,          \* the last PluginManager / Platform call and how it returned
    pm_trace          \* the container methods that call invoked, in order

VARIABLES
    \* ---- termite.dependencies.Graph ----
    graph,            \* a Graph of plain vertices, with the marks of the vertices
    rings,            \* what the last find_circular_rings() returned
    graph_result,     \* how the last Graph call returned
    iterator,         \* the GraphIterator iter(graph) returned: stack and
                      \* current_vertex
    yielded           \* what the calls of its __next__ returned, in order

VARIABLES
    \* ---- nanopp.plugins.support.RequiresEntry ----
    version_range,    \* self.version_range: the two bounds, each a version
                      \* (or None) with its inclusive flag
    in_range          \* the last version_in_range call: version and result

containerVars == <<plugin_classes, plugin, plugin_state, plugin_hooks, call, calls, scenario>>

managerVars == <<dependencies, install_order, dm_result>>

supportVars == <<version_range, in_range>>

nanoppVars == <<managerVars, supportVars>>

requireVars == <<dependencies_graph, order, order_calls, pdm_result>>

registryVars == <<containers, plugins_by_ref, plugins_by_id, pm_call, pm_trace>>

graphVars == <<graph, rings, graph_result, iterator, yielded>>

platformVars == <<registryVars, graphVars>>

vars == <<containerVars, nanoppVars, requireVars, platformVars>>

-----------------------------------------------------------------------------
(***************************************************************************)
(* termite.platform.Plugin: the states                                     *)
(***************************************************************************)
NONE == "None"
STATE_UNINSTALLED == "STATE_UNINSTALLED"
STATE_INSTALLED == "STATE_INSTALLED"
STATE_ACTIVE == "STATE_ACTIVE"
STATE_DEACTIVATED == "STATE_DEACTIVATED"
STATE_DISPOSED == "STATE_DISPOSED"

PluginStates ==
    {NONE, STATE_UNINSTALLED, STATE_INSTALLED, STATE_ACTIVE, STATE_DEACTIVATED, STATE_DISPOSED}

\* How a call returns: normally, or with the exception it raises.
OK == "ok"
PluginLifecycleException == "PluginLifecycleException"
LoaderError == "LoaderError"
ResolveError == "ResolveError"
CreateHookError == "CreateHookError"

\* The manifests the loader may deliver: the list of hook classes. "h1" and
\* "h2" are subclasses of Plugin; "part" is a class of its own that defines
\* deactivate and nothing else.
ManifestChoices == {<<>>, <<"h1">>, <<"h1", "h2">>, <<"part">>}

AttributeError == "AttributeError"

\* isinstance(hook_inst, Plugin)
IsPlugin(hook_class) == hook_class # "part"

\* target.__getattribute__(name): whether the object of the class has the
\* attribute (Plugin defines activate, deactivate and on_state_change).
HasAttribute(hook_class, name) ==
    IsPlugin(hook_class) \/ name = "deactivate"

\* create_hooks: an instance that is not a Plugin is wrapped in a Proxy.
HookInst(hook_class) ==
    IF IsPlugin(hook_class) THEN "plugin" ELSE "Proxy"

\* Proxy.__getattribute__(name) for a method name of the hooks: the look-up
\* in the target raises AttributeError for a missing attribute, which the
\* handler for ValueError lets through, so that on_missing is never reached;
\* an attribute that is there is forwarded by the method wrapper.
ProxyGetattribute(hook_class, name) ==
    IF HasAttribute(hook_class, name) THEN "method_wrapper" ELSE AttributeError

\* hook.<method>() on the hooks of the list: the hooks whose call raises,
\* either in the method itself (those of raises) or in the look-up.
Raising(hooks, method, raises) ==
    {i \in DOMAIN hooks :
        IF HookInst(hooks[i]) = "Proxy"
           /\ ProxyGetattribute(hooks[i], method) = AttributeError
        THEN TRUE
        ELSE i \in raises}

\* create_hooks appends on every install: the bound on the length of plugin_hooks.
MaxHooks == 4

-----------------------------------------------------------------------------
(***************************************************************************)
(* PluginContainer: the guards of the transitions                          *)
(***************************************************************************)
\* mutant: load() without its guard, as in nanopp.platform.PluginContainer.load
LoadAllowedUnguarded(st) == TRUE

LoadAllowed(st) == st # STATE_DISPOSED

InstallAllowed(st) == st = STATE_UNINSTALLED

\* mutant: the guard tests for Disposed only
ActivateAllowedUnlessDisposed(st) == st # STATE_DISPOSED

\* mutant: a deactivated plugin cannot be activated again
ActivateAllowedOnce(st) == st = STATE_INSTALLED

ActivateAllowed(st) == ~(st # STATE_INSTALLED /\ st # STATE_DEACTIVATED)

DeactivateAllowed(st) == st = STATE_ACTIVE

UninstallAllowed(st) == st \in {STATE_DEACTIVATED, STATE_INSTALLED}

DisposeAllowed(st) == st = STATE_UNINSTALLED

\* The first of the hooks 1..n that raises, 0 when none does.
FirstRaising(n, raises) ==
    IF \E i \in 1..n : i \in raises
    THEN CHOOSE i \in 1..n : i \in raises /\ \A j \in 1..(i - 1) : j \notin raises
    ELSE 0

\* method invoked on the hooks 1..upto, in list order
HookCalls(method, upto) == [i \in 1..upto |-> <<i, method>>]

\* notify_state_change: on_state_change on every hook; a hook's error is
\* logged and the loop goes on.
NotifyCalls(hooks) == HookCalls("on_state_change", Len(hooks))

\* activate: the loop over the hooks stops at the first one that raises.
ActivateCalls(hooks, raises) ==
    LET k == FirstRaising(Len(hooks), raises)
    IN  HookCalls("activate", IF k = 0 THEN Len(hooks) ELSE k)

\* mutant: the "ERROR state" of Plugin.activate's docstring is Disposed
ActivateOutcomeDisposed(hooks, raises) ==
    IF FirstRaising(Len(hooks), raises) = 0 THEN STATE_ACTIVE ELSE STATE_DISPOSED

\* activate: the state after the try block.
ActivateOutcome(hooks, raises) ==
    IF FirstRaising(Len(hooks), raises) = 0 THEN STATE_ACTIVE ELSE STATE_DEACTIVATED

\* mutant: one try block around the whole loop
DeactivateCallsAbort(hooks, raises) ==
    LET k == FirstRaising(Len(hooks), raises)
    IN  HookCalls("deactivate", IF k = 0 THEN Len(hooks) ELSE k)

\* deactivate: every hook is called, each in its own try block.
DeactivateCalls(hooks, raises) == HookCalls("deactivate", Len(hooks))

\* mutant: a failed install leaves the plugin to be installed again
InstallFailureStateRetry == STATE_UNINSTALLED

\* install: the state the except block leaves.
InstallFailureState == STATE_DISPOSED

\* create_hooks: the hooks appended before the class at position failAt
\* fails to load or to instantiate (0: none fails).
CreatedHooks(classes, failAt) ==
    IF failAt = 0 THEN classes ELSE SubSeq(classes, 1, failAt - 1)

\* install: the exception a failing step of the try block raises.
InstallError(fault) ==
    IF fault = "resolve_dependencies" THEN ResolveError ELSE CreateHookError

Call(op, raises, fault, result) ==
    [op |-> op, from |-> plugin_state, raises |-> raises, fault |-> fault,
     result |-> result]

\* History of the calls made, kept beside the container: 1 after activate()
\* in Installed, 2 after a deactivate() that follows, 3 after an activate()
\* that follows that, then 2, 3, ... as the two alternate; 0 otherwise. Only
\* calls whose hooks all return count. It records which calls were made,
\* not how they ended.
ScenarioAfter(op, raises) ==
    IF raises # {} THEN 0
    ELSE IF op = "activate"
         THEN (IF plugin_state = STATE_INSTALLED THEN 1
               ELSE IF scenario = 2 THEN 3 ELSE 0)
    ELSE IF op = "deactivate"
         THEN (IF scenario \in {1, 3} THEN 2 ELSE 0)
    ELSE 0

\* A call refused by its guard: PluginLifecycleException, nothing assigned.
Refused(op, raises) ==
    /\ call' = Call(op, {}, "none", PluginLifecycleException)
    /\ calls' = <<>>
    /\ scenario' = ScenarioAfter(op, raises)
    /\ UNCHANGED <<plugin_classes, plugin, plugin_state, plugin_hooks>>

-----------------------------------------------------------------------------
(***************************************************************************)
(* PluginContainer: the operations                                         *)
(***************************************************************************)
\* load(): refused once disposed; the loader may fail before anything is
\* assigned; otherwise the state becomes Uninstalled, whatever it was.
Load(loaderFails) ==
    /\ UNCHANGED <<nanoppVars, requireVars, platformVars>>
    /\ IF ~LoadAllowed(plugin_state)
       THEN Refused("load", {})
       ELSE /\ calls' = <<>>
            /\ scenario' = 0
            /\ IF loaderFails
               THEN /\ call' = Call("load", {}, "loader", LoaderError)
                    /\ UNCHANGED <<plugin_classes, plugin, plugin_state, plugin_hooks>>
               ELSE /\ call' = Call("load", {}, "none", OK)
                    /\ plugin' = "loaded"
                    /\ plugin_state' = STATE_UNINSTALLED
                    /\ UNCHANGED <<plugin_classes, plugin_hooks>>

\* install(): resolve_dependencies, create_hooks, Installed, notify; any
\* exception of the try block sets Disposed and is raised again.
Install(resolveRaises, failAt) ==
    /\ UNCHANGED <<nanoppVars, requireVars, platformVars>>
    /\ IF ~InstallAllowed(plugin_state)
       THEN Refused("install", {})
       ELSE /\ Len(plugin_hooks.items) + Len(plugin_classes) <= MaxHooks
            /\ scenario' = 0
            /\ UNCHANGED <<plugin_classes, plugin>>
            /\ IF resolveRaises
               THEN /\ call' = Call("install", {}, "resolve_dependencies", InstallError("resolve_dependencies"))
                    /\ plugin_state' = InstallFailureState
                    /\ calls' = <<>>
                    /\ UNCHANGED plugin_hooks
               ELSE LET hooks == plugin_hooks.items \o CreatedHooks(plugin_classes, failAt)
                    IN  /\ plugin_hooks' = [plugin_hooks EXCEPT !.items = hooks]
                        /\ IF failAt # 0
                           THEN /\ call' = Call("install", {}, "create_hooks", InstallError("create_hooks"))
                                /\ plugin_state' = InstallFailureState
                                /\ calls' = <<>>
                           ELSE /\ call' = Call("install", {}, "none", OK)
                                /\ plugin_state' = STATE_INSTALLED
                                /\ calls' = NotifyCalls(hooks)

\* activate(): the hooks in list order; Active when all return, Deactivated
\* when one raises (the exception is logged, not raised again). own: the
\* hooks whose own method raises.
Activate(own) ==
    /\ UNCHANGED <<nanoppVars, requireVars, platformVars>>
    /\ IF ~ActivateAllowed(plugin_state)
       THEN Refused("activate", own)
       ELSE LET hooks == plugin_hooks.items
                raises == Raising(hooks, "activate", own)
            IN  /\ call' = Call("activate", raises, "none", OK)
                /\ plugin_state' = ActivateOutcome(hooks, raises)
                /\ calls' = ActivateCalls(hooks, raises) \o NotifyCalls(hooks)
                /\ scenario' = ScenarioAfter("activate", raises)
                /\ UNCHANGED <<plugin_classes, plugin, plugin_hooks>>

\* deactivate(): every hook, errors logged; then Deactivated and notify.
Deactivate(own) ==
    /\ UNCHANGED <<nanoppVars, requireVars, platformVars>>
    /\ IF ~DeactivateAllowed(plugin_state)
       THEN Refused("deactivate", own)
       ELSE LET hooks == plugin_hooks.items
                raises == Raising(hooks, "deactivate", own)
            IN  /\ call' = Call("deactivate", raises, "none", OK)
                /\ plugin_state' = STATE_DEACTIVATED
                /\ calls' = DeactivateCalls(hooks, raises) \o NotifyCalls(hooks)
                /\ scenario' = ScenarioAfter("deactivate", raises)
                /\ UNCHANGED <<plugin_classes, plugin, plugin_hooks>>

\* uninstall(): Uninstalled and notify; the hooks stay in plugin_hooks.
Uninstall ==
    /\ UNCHANGED <<nanoppVars, requireVars, platformVars>>
    /\ IF ~UninstallAllowed(plugin_state)
       THEN Refused("uninstall", {})
       ELSE /\ call' = Call("uninstall", {}, "none", OK)
            /\ plugin_state' = STATE_UNINSTALLED
            /\ calls' = NotifyCalls(plugin_hooks.items)
            /\ scenario' = 0
            /\ UNCHANGED <<plugin_classes, plugin, plugin_hooks>>

\* dispose(): Disposed; plugin_hooks and plugin are set to None.
Dispose ==
    /\ UNCHANGED <<nanoppVars, requireVars, platformVars>>
    /\ IF ~DisposeAllowed(plugin_state)
       THEN Refused("dispose", {})
       ELSE /\ call' = Call("dispose", {}, "none", OK)
            /\ plugin_state' = STATE_DISPOSED
            /\ plugin_hooks' = [is_none |-> TRUE, items |-> <<>>]
            /\ plugin' = NONE
            /\ calls' = <<>>
            /\ scenario' = 0
            /\ UNCHANGED plugin_classes

ContainerNew ==
    /\ plugin = NONE
    /\ plugin_state = NONE
    /\ plugin_hooks = [is_none |-> FALSE, items |-> <<>>]
    /\ call = [op |-> "new", from |-> NONE, raises |-> {}, fault |-> "none", result |-> OK]
    /\ calls = <<>>
    /\ scenario = 0

\* The hooks an activate or deactivate call may find raising.
HookSets == SUBSET (1..Len(plugin_hooks.items))

-----------------------------------------------------------------------------
(***************************************************************************)
(* nanopp.platform.PluginContainer: the earlier container, with the same   *)
(* fields (kept in the same variables) and the same states. Its load has   *)
(* no guard, its activate has another guard, and its deactivate, uninstall *)
(* and dispose are empty.                                                  *)
(***************************************************************************)
\* activate: the guard, "is not Installed or is not Deactivated".
NanoppActivateAllowed(st) == ~(st # STATE_INSTALLED \/ st # STATE_DEACTIVATED)

\* notify_state_change asks every hook for on_state_chnage; the error of
\* the hook that has no such attribute is logged and the loop goes on.
NanoppNotifyCalls(hooks) == HookCalls("on_state_chnage", Len(hooks))

\* load(): the loader may fail before anything is assigned; otherwise the
\* state becomes Uninstalled, whatever it was.
NanoppLoad(loaderFails) ==
    /\ UNCHANGED <<nanoppVars, requireVars, platformVars>>
    /\ calls' = <<>>
    /\ scenario' = 0
    /\ IF loaderFails
       THEN /\ call' = Call("load", {}, "loader", LoaderError)
            /\ UNCHANGED <<plugin_classes, plugin, plugin_state, plugin_hooks>>
       ELSE /\ call' = Call("load", {}, "none", OK)
            /\ plugin' = "loaded"
            /\ plugin_state' = STATE_UNINSTALLED
            /\ UNCHANGED <<plugin_classes, plugin_hooks>>

\* install(): resolve_dependencies, create_hooks, Installed, notify; any
\* exception of the try block sets Disposed and is raised again.
NanoppInstall(resolveRaises, failAt) ==
    /\ UNCHANGED <<nanoppVars, requireVars, platformVars>>
    /\ IF ~InstallAllowed(plugin_state)
       THEN Refused("install", {})
       ELSE /\ Len(plugin_hooks.items) + Len(plugin_classes) <= MaxHooks
            /\ scenario' = 0
            /\ UNCHANGED <<plugin_classes, plugin>>
            /\ IF resolveRaises
               THEN /\ call' = Call("install", {}, "resolve_dependencies", InstallError("resolve_dependencies"))
                    /\ plugin_state' = STATE_DISPOSED
                    /\ calls' = <<>>
                    /\ UNCHANGED plugin_hooks
               ELSE LET hooks == plugin_hooks.items \o CreatedHooks(plugin_classes, failAt)
                    IN  /\ plugin_hooks' = [plugin_hooks EXCEPT !.items = hooks]
                        /\ IF failAt # 0
                           THEN /\ call' = Call("install", {}, "create_hooks", InstallError("create_hooks"))
                                /\ plugin_state' = STATE_DISPOSED
                                /\ calls' = <<>>
                           ELSE /\ call' = Call("install", {}, "none", OK)
                                /\ plugin_state' = STATE_INSTALLED
                                /\ calls' = NanoppNotifyCalls(hooks)

\* activate(): refused unless the guard lets the state through; then the
\* hooks in list order, Active when all return, Deactivated when one raises.
NanoppActivate(own) ==
    /\ UNCHANGED <<nanoppVars, requireVars, platformVars>>
    /\ IF ~NanoppActivateAllowed(plugin_state)
       THEN Refused("activate", own)
       ELSE LET hooks == plugin_hooks.items
                raises == Raising(hooks, "activate", own)
            IN  /\ call' = Call("activate", raises, "none", OK)
                /\ plugin_state' = ActivateOutcome(hooks, raises)
                /\ calls' = ActivateCalls(hooks, raises) \o NanoppNotifyCalls(hooks)
                /\ scenario' = ScenarioAfter("activate", raises)
                /\ UNCHANGED <<plugin_classes, plugin, plugin_hooks>>

\* deactivate(), uninstall(), dispose(): "pass".
NanoppPass(op) ==
    /\ UNCHANGED <<nanoppVars, requireVars, platformVars>>
    /\ call' = Call(op, {}, "none", OK)
    /\ calls' = <<>>
    /\ scenario' = 0
    /\ UNCHANGED <<plugin_classes, plugin, plugin_state, plugin_hooks>>

-----------------------------------------------------------------------------
(***************************************************************************)
(* nanopp.plugins.support: RequiresEntry and its version range. A version  *)
(* is a str, here the sequence of its characters; None is the sequence     *)
(* <<"None">>, which is no sequence of characters.                         *)
(***************************************************************************)
None == <<NONE>>

\* ord(c) for the characters of the versions
Ord == [c \in {".", "0", "1", "9"} |->
           CASE c = "." -> 46 [] c = "0" -> 48 [] c = "1" -> 49 [] c = "9" -> 57]

\* a < b for two str: the first place where they differ decides, by the
\* code points; a proper prefix is the smaller one.
StrLess(a, b) ==
    LET n == IF Len(a) < Len(b) THEN Len(a) ELSE Len(b)
        differ == {i \in 1..n : a[i] # b[i]}
    IN  IF differ = {} THEN Len(a) < Len(b)
        ELSE LET k == CHOOSE i \in differ : \A j \in differ : i <= j
             IN  Ord[a[k]] < Ord[b[k]]

\* mutant: the minimum is always exclusive
CheckMinVersionExclusive(version, min_version, incl) ==
    IF min_version = None THEN TRUE ELSE StrLess(min_version, version)

\* check_min_version: version >= min_version, or version > min_version
CheckMinVersion(version, min_version, incl) ==
    IF min_version = None THEN TRUE
    ELSE IF incl THEN ~StrLess(version, min_version)
    ELSE StrLess(min_version, version)

\* check_max_version: version <= max_version, or version < max_version
CheckMaxVersion(version, max_version, incl) ==
    IF max_version = None THEN TRUE
    ELSE IF incl THEN ~StrLess(max_version, version)
    ELSE StrLess(version, max_version)

\* normalize_version_string: a version of fewer than three segments is
\* split at the dots, filled up with segments "0" and joined again, which
\* appends ".0" for every missing segment.
NormalizeVersionString(version) ==
    IF version = None THEN None
    ELSE LET vrs == Cardinality({i \in DOMAIN version : version[i] = "."}) + 1
             n == IF vrs < 3 THEN 3 - vrs ELSE 0
         IN  version \o [i \in 1..(2 * n) |-> IF i % 2 = 1 THEN "." ELSE "0"]

\* normalize_version, for a tuple (version, inclusive)
NormalizeVersion(version_tpl) ==
    <<NormalizeVersionString(version_tpl[1]), version_tpl[2]>>

\* RequiresEntry.__init__: the version range it stores
RequiresEntryRange(range) ==
    LET given == IF Len(range) = 0 THEN <<<<None, FALSE>>, <<None, FALSE>>>>
                 ELSE range
        both == IF Len(given) < 2 THEN Append(given, <<None, FALSE>>) ELSE given
    IN  <<NormalizeVersion(both[1]), NormalizeVersion(both[2])>>

\* version_in_range(version)
VersionInRangeOf(range, version) ==
    /\ CheckMinVersion(version, range[1][1], range[1][2])
    /\ CheckMaxVersion(version, range[2][1], range[2][2])

NotChecked == [version |-> None, result |-> FALSE]

VersionInRange(version) ==
    /\ UNCHANGED <<containerVars, managerVars, requireVars, platformVars>>
    /\ in_range' = [version |-> version, result |-> VersionInRangeOf(version_range, version)]
    /\ UNCHANGED version_range

\* RequiresEntry(name, None)
SupportNew ==
    /\ version_range = RequiresEntryRange(<<>>)
    /\ in_range = NotChecked

\* The versions of the entries and of the calls, and the ranges given to
\* the constructor.
VersionChoices ==
    { <<"1">>, <<"9">>, <<"1", "0">>, <<"9", ".", "0">>, <<"9", ".", "0", ".", "0">>,
      <<"1", "0", ".", "0", ".", "0">>, <<"1", "1", ".", "0", ".", "0">>,
      <<"1", "0", ".", "0", ".", "0", ".", "1">> }

BoundChoices == {<<None, FALSE>>} \cup (VersionChoices \X BOOLEAN)

RangeChoices ==
    {<<>>} \cup {<<lo>> : lo \in BoundChoices} \cup (BoundChoices \X BoundChoices)

-----------------------------------------------------------------------------
(***************************************************************************)
(* Graph, Vertex, Edge (the same classes in nanopp.dependencies and in     *)
(* termite.dependencies). A graph is a record: vertices (the list of       *)
(* vertex names), edges (the list of edges, records with head and tail),   *)
(* ids (edges_by_vertex: the edge ids in use) and incidence (Vertex.edges: *)
(* for each vertex the positions in edges of the edges appended to it).    *)
(* Vertices are named by names that hold no "-", so that the id            *)
(* "<head>-<tail>" of an edge is the pair of the two names.                *)
(***************************************************************************)
Range(f) == {f[i] : i \in DOMAIN f}

NewGraph == [vertices |-> <<>>, edges |-> <<>>, ids |-> {}, incidence |-> <<>>]

\* Graph.get_vertex(name) is not None
HasVertex(g, name) == name \in Range(g.vertices)

\* Graph.add_vertex, past its duplicate check
AddVertex(g, name) ==
    [g EXCEPT !.vertices = Append(@, name),
              !.incidence = @ @@ (name :> <<>>)]

\* Graph.__to_edge_id / Edge.id: "%s-%s" % (head.name, tail.name)
EdgeId(head, tail) == <<head, tail>>

\* The edge is stored under its id and appended to the graph's list, then to
\* the head's list, then to the tail's list (twice to the one list of a
\* vertex that is both).
LinkEdge(g, edge, id) ==
    LET pos == Len(g.edges) + 1
        inc1 == [g.incidence EXCEPT ![edge.head] = Append(@, pos)]
        inc2 == [inc1 EXCEPT ![edge.tail] = Append(@, pos)]
    IN  [g EXCEPT !.edges = Append(@, edge), !.ids = @ \cup {id}, !.incidence = inc2]

\* Vertex.out_edges: the edges of the vertex whose head is not the vertex
OutEdges(g, v) == SelectSeq(g.incidence[v], LAMBDA e : g.edges[e].head # v)

\* Vertex.in_edges: the edges of the vertex whose head is the vertex
InEdges(g, v) == SelectSeq(g.incidence[v], LAMBDA e : g.edges[e].head = v)

-----------------------------------------------------------------------------
(***************************************************************************)
(* nanopp.dependencies.DependenciesManager                                 *)
(***************************************************************************)
NotCalled == <<"not called">>

\* DependenciesManager.get_dependency(dep_id) is not None
Registered(deps, dep_id) == \E i \in DOMAIN deps : deps[i].name = dep_id

\* Dependency.__init__
NewDependency(dep_id, depends_on) ==
    [name |-> dep_id, depends_on |-> depends_on, dependants |-> <<>>,
     available |-> (Len(depends_on) = 0)]

\* add_dependency, past its duplicate check: the new entry is stored, then
\* appended to the dependants of every entry its depends_on names, once for
\* each time it is named.
WithDependency(deps, dep_id, depends_on) ==
    LET stored == Append(deps, NewDependency(dep_id, depends_on))
        times(name) == Cardinality({k \in DOMAIN depends_on : depends_on[k] = name})
    IN  [i \in DOMAIN stored |->
            [stored[i] EXCEPT !.dependants =
                @ \o [k \in 1..times(stored[i].name) |-> dep_id]]]

\* build_dependency_graph, first loop: one vertex for each entry and the
\* list of (head, tail) pairs, one for each name an entry depends on.
RECURSIVE EdgePairs(_)
EdgePairs(deps) ==
    IF deps = <<>> THEN <<>>
    ELSE [k \in DOMAIN Head(deps).depends_on |->
              [head |-> Head(deps).depends_on[k], tail |-> Head(deps).name]]
         \o EdgePairs(Tail(deps))

RECURSIVE AddVertices(_, _)
AddVertices(g, names) ==
    IF names = <<>> THEN g
    ELSE AddVertices(AddVertex(g, Head(names)), Tail(names))

\* build_dependency_graph, second loop: the two vertices are looked up or
\* added, head first, and create_edge links them. The result is
\* [failed, graph]: create_edge raises for a pair that already has an edge.
RECURSIVE CreateEdges(_, _)
CreateEdges(g, pairs) ==
    IF pairs = <<>> THEN [failed |-> FALSE, graph |-> g]
    ELSE LET e == Head(pairs)
             g1 == IF HasVertex(g, e.head) THEN g ELSE AddVertex(g, e.head)
             g2 == IF HasVertex(g1, e.tail) THEN g1 ELSE AddVertex(g1, e.tail)
         IN  IF EdgeId(e.head, e.tail) \in g2.ids
             THEN [failed |-> TRUE, graph |-> g2]
             ELSE CreateEdges(LinkEdge(g2, e, EdgeId(e.head, e.tail)), Tail(pairs))

BuildDependencyGraph(deps) ==
    CreateEdges(AddVertices(NewGraph, [i \in DOMAIN deps |-> deps[i].name]),
                EdgePairs(deps))

\* The marks of a traversal and its output: the marked vertices, the marked
\* edges, the vertices appended so far.
NoMarks == [vmarked |-> {}, emarked |-> {}, order |-> <<>>]

\* mutant: every out edge is counted as resolved
CountNoOutEdges(g, v, st) == 0

\* __count_unmarked_out_edges__
CountUnmarkedOutEdges(g, v, st) ==
    Len(SelectSeq(OutEdges(g, v), LAMBDA e : e \notin st.emarked))

\* __traverse__: a marked vertex is left alone; a vertex with no unmarked
\* out edge is appended and marked, its in edges are marked, and the tails
\* that are unmarked at that point are traversed in turn.
RECURSIVE Traverse(_, _, _)
RECURSIVE TraverseEach(_, _, _)
Traverse(g, v, st) ==
    IF v \in st.vmarked THEN st
    ELSE IF CountUnmarkedOutEdges(g, v, st) = 0
    THEN LET ins == InEdges(g, v)
             added == [vmarked |-> st.vmarked \cup {v},
                       emarked |-> st.emarked \cup Range(ins),
                       order |-> Append(st.order, v)]
             tails == [k \in DOMAIN ins |-> g.edges[ins[k]].tail]
             visit_vertices == SelectSeq(tails, LAMBDA t : t \notin added.vmarked)
         IN  TraverseEach(g, visit_vertices, added)
    ELSE st

TraverseEach(g, visit, st) ==
    IF visit = <<>> THEN st
    ELSE TraverseEach(g, Tail(visit), Traverse(g, Head(visit), st))

\* get_install_order: over the vertices in list order, a traversal is
\* started at each vertex that has no out edge; the names are returned.
RECURSIVE InstallOrderFrom(_, _, _)
InstallOrderFrom(g, vs, st) ==
    IF vs = <<>> THEN st.order
    ELSE InstallOrderFrom(g, Tail(vs),
             IF Len(OutEdges(g, Head(vs))) = 0 THEN Traverse(g, Head(vs), st) ELSE st)

GetInstallOrderOf(deps) ==
    LET built == BuildDependencyGraph(deps)
    IN  IF built.failed THEN [result |-> "Exception", order |-> NotCalled]
        ELSE [result |-> OK,
              order |-> InstallOrderFrom(built.graph, built.graph.vertices, NoMarks)]

\* add_dependency(dep_id, depends_on)
AddDependency(dep_id, depends_on) ==
    /\ UNCHANGED <<containerVars, supportVars, requireVars, platformVars>>
    /\ install_order' = NotCalled
    /\ IF Registered(dependencies, dep_id)
       THEN /\ dm_result' = [op |-> "add_dependency", result |-> "Exception"]
            /\ UNCHANGED dependencies
       ELSE /\ dm_result' = [op |-> "add_dependency", result |-> OK]
            /\ dependencies' = WithDependency(dependencies, dep_id, depends_on)

\* get_install_order()
GetInstallOrder ==
    LET got == GetInstallOrderOf(dependencies)
    IN  /\ UNCHANGED <<containerVars, supportVars, requireVars, platformVars>>
        /\ install_order' = got.order
        /\ dm_result' = [op |-> "get_install_order", result |-> got.result]
        /\ UNCHANGED dependencies

ManagerNew ==
    /\ dependencies = <<>>
    /\ install_order = NotCalled
    /\ dm_result = [op |-> "new", result |-> OK]

\* Declarations of any shape: the ids and, up to a length, the lists of
\* names an id may be declared to depend on.
AnyIds == {"A", "B", "C"}

MaxDependsOn == 2

DependsOnChoices ==
    UNION {[1..n -> AnyIds] : n \in 0..MaxDependsOn}

\* The declarations of tests/test_dependencies.py, test_create_dependency_graph
ExampleIds == {"A", "B", "C", "D", "E", "F"}

ExampleDependsOn(dep_id) ==
    CASE dep_id = "A" -> <<"B", "C">>
      [] dep_id = "B" -> <<>>
      [] dep_id = "C" -> <<"D", "E", "F">>
      [] dep_id = "D" -> <<"F">>
      [] dep_id = "E" -> <<"B">>
      [] dep_id = "F" -> <<"E">>

-----------------------------------------------------------------------------
(***************************************************************************)
(* termite.dependencies: PluginDependency, Require and                     *)
(* PluginDependenciesManager. The graph record also holds vmarks           *)
(* (Markable marks of each vertex), providers (PluginDependency.providers, *)
(* for each vertex the versions in insertion order, each with its list of  *)
(* providers) and emarks (the marks of each edge, by its place in edges).  *)
(***************************************************************************)
\* Markable.__init__: no mark under ":default", none under "VISITED"
NoMark == [default |-> "None", VISITED |-> "None"]

NewDependenciesGraph ==
    [vertices |-> <<>>, edges |-> <<>>, ids |-> {}, incidence |-> <<>>,
     vmarks |-> <<>>, providers |-> <<>>, emarks |-> <<>>]

\* PluginDependenciesManager.dependency(name): the vertex is looked up, and
\* created and added when there is none.
WithDependencyVertex(g, name) ==
    IF HasVertex(g, name) THEN g
    ELSE [AddVertex(g, name) EXCEPT !.vmarks = @ @@ (name :> NoMark),
                                    !.providers = @ @@ (name :> <<>>)]

\* Require.__to_version_tupple__: a tuple is kept, anything else, None
\* included, becomes (v, True). An argument is a record [form, v, incl] with
\* form "none" (None), "bare" (v) or "tuple" ((v, incl)).
ToVersionTuple(arg) ==
    IF arg.form = "tuple" THEN [none |-> FALSE, v |-> arg.v, incl |-> arg.incl]
    ELSE [none |-> (arg.form = "none"), v |-> arg.v, incl |-> TRUE]

\* Require.__init__
NewRequire(head, tail, min_version, max_version) ==
    [head |-> head, tail |-> tail,
     min_version |-> ToVersionTuple(min_version),
     max_version |-> ToVersionTuple(max_version)]

\* Require.id: "<tail>-><head>:" and the two bounds with their brackets
RequireId(req) == <<req.tail, req.head, req.min_version, req.max_version>>

\* Require.is_satisfied_with(version)
IsSatisfiedWith(req, version) == FALSE

\* Require.is_satisfied: the mark under ":default" is "satisfied"
IsSatisfied(g, e) == g.emarks[e].default = "satisfied"

\* PluginDependency.add_provider: appended to the list of the version,
\* which is created when the version has none.
WithProvider(provs, version, provider) ==
    IF \E i \in DOMAIN provs : provs[i].version = version
    THEN [i \in DOMAIN provs |->
            IF provs[i].version = version
            THEN [provs[i] EXCEPT !.providers = Append(@, provider)]
            ELSE provs[i]]
    ELSE Append(provs, [version |-> version, providers |-> <<provider>>])

\* add_provider, the loop over the in edges of the dependency: an edge that
\* is satisfied with the version is marked "satisfied".
MarkSatisfied(g, dep_name, version) ==
    [g EXCEPT !.emarks =
        [e \in DOMAIN g.emarks |->
            IF /\ e \in Range(InEdges(g, dep_name))
               /\ IsSatisfiedWith(g.edges[e], version)
            THEN [g.emarks[e] EXCEPT !.default = "satisfied"]
            ELSE g.emarks[e]]]

\* The depth of nested __follow__ calls at which the interpreter raises
\* RecursionError (sys.getrecursionlimit() frames in CPython).
RecursionLimit == 12

\* mutant: a vertex is ready as soon as one of its out edges is marked
SomeVisited(g, v) ==
    \E k \in DOMAIN OutEdges(g, v) : g.emarks[OutEdges(g, v)[k]].VISITED # "None"

\* __all_visited__: every out edge is marked "VISITED"
AllVisited(g, v) ==
    \A k \in DOMAIN OutEdges(g, v) : g.emarks[OutEdges(g, v)[k]].VISITED # "None"

\* __follow__(v_parent, list_in_order). The traversal state is the graph
\* (for its marks), the list, and whether RecursionError was raised, which
\* ends every loop on the way out.
RECURSIVE Follow(_, _, _)
RECURSIVE FollowTails(_, _, _)
RECURSIVE FollowHeads(_, _, _)
Follow(st, v, depth) ==
    IF st.overflow THEN st
    ELSE IF depth > RecursionLimit THEN [st EXCEPT !.overflow = TRUE]
    ELSE IF st.graph.vmarks[v].VISITED # "None" THEN st
    ELSE IF Len(OutEdges(st.graph, v)) = 0 \/ AllVisited(st.graph, v)
    THEN FollowTails([st EXCEPT !.list = Append(@, v),
                                !.graph.vmarks[v].VISITED = "True"],
                     InEdges(st.graph, v), depth)
    ELSE FollowHeads(st, OutEdges(st.graph, v), depth)

\* the loop over the in edges: each is marked, then its tail is followed
FollowTails(st, ins, depth) ==
    IF ins = <<>> \/ st.overflow THEN st
    ELSE FollowTails(
             Follow([st EXCEPT !.graph.emarks[Head(ins)].VISITED = "True"],
                    st.graph.edges[Head(ins)].tail, depth + 1),
             Tail(ins), depth)

\* the loop over the out edges: the head of each is followed
FollowHeads(st, outs, depth) ==
    IF outs = <<>> \/ st.overflow THEN st
    ELSE FollowHeads(Follow(st, st.graph.edges[Head(outs)].head, depth + 1),
                     Tail(outs), depth)

\* reverese_dependency_order: __follow__ from every vertex, in list order
RECURSIVE FollowEach(_, _)
FollowEach(st, vs) ==
    IF vs = <<>> \/ st.overflow THEN st
    ELSE FollowEach(Follow(st, Head(vs), 1), Tail(vs))

ReverseDependencyOrderOf(g) ==
    FollowEach([graph |-> g, list |-> <<>>, overflow |-> FALSE], g.vertices)

\* The names, the version ranges and the provider versions of the calls.
DepNames == {"a", "b", "c"}

NoVersion == [form |-> "none", v |-> 0, incl |-> TRUE]

VersionRanges ==
    { <<[form |-> "tuple", v |-> 1, incl |-> TRUE], [form |-> "tuple", v |-> 2, incl |-> FALSE]>>,
      <<[form |-> "bare", v |-> 1, incl |-> TRUE], NoVersion>> }

ProviderVersions == {0, 1, 2}

\* The bounds on the graph of a run, on the providers registered on it and
\* on the calls of reverese_dependency_order.
MaxEdges == 2
MaxProviders == 2
MaxOrderCalls == 1

ProviderCount(g) ==
    LET RECURSIVE Sum(_)
        Sum(names) ==
            IF names = <<>> THEN 0
            ELSE LET provs == g.providers[Head(names)]
                     RECURSIVE Count(_)
                     Count(i) == IF i = 0 THEN 0
                                 ELSE Len(provs[i].providers) + Count(i - 1)
                 IN  Count(Len(provs)) + Sum(Tail(names))
    IN  Sum(g.vertices)

\* What the calls raise: add_edge "Edge (...) already exists", add_provider
\* "Dependency [...] does not exist.", and the interpreter's RecursionError.
EdgeExists == "Exception: Edge already exists"
DependencyMissing == "Exception: Dependency does not exist"
RecursionError == "RecursionError"

\* dependency(name)
Dependency(name) ==
    /\ UNCHANGED <<containerVars, nanoppVars, platformVars, order_calls>>
    /\ dependencies_graph' = WithDependencyVertex(dependencies_graph, name)
    /\ order' = NotCalled
    /\ pdm_result' = OK

\* require(dep_name, require, min_version, max_version): the Require is
\* built on the two vertices, the required one looked up or created first;
\* add_edge raises when an edge with its id is stored already.
Require(dep_name, require, min_version, max_version) ==
    LET g == WithDependencyVertex(WithDependencyVertex(dependencies_graph, require),
                                  dep_name)
        req == NewRequire(require, dep_name, min_version, max_version)
    IN  /\ UNCHANGED <<containerVars, nanoppVars, platformVars, order_calls>>
        /\ order' = NotCalled
        /\ IF RequireId(req) \in g.ids
           THEN /\ dependencies_graph' = g
                /\ pdm_result' = EdgeExists
           ELSE /\ Len(g.edges) < MaxEdges
                /\ dependencies_graph' =
                       [LinkEdge(g, req, RequireId(req)) EXCEPT !.emarks = Append(@, NoMark)]
                /\ pdm_result' = OK

\* mutant: add_provider creates the dependency it does not find
AddProviderLazily(dep_name, version, provider) ==
    LET g == WithDependencyVertex(dependencies_graph, dep_name)
    IN  /\ UNCHANGED <<containerVars, nanoppVars, platformVars, order_calls>>
        /\ order' = NotCalled
        /\ ProviderCount(g) < MaxProviders
        /\ pdm_result' = OK
        /\ dependencies_graph' =
               MarkSatisfied([g EXCEPT !.providers[dep_name] =
                                  WithProvider(@, version, provider)],
                             dep_name, version)

\* add_provider(dep_name, version, provider)
AddProvider(dep_name, version, provider) ==
    /\ UNCHANGED <<containerVars, nanoppVars, platformVars, order_calls>>
    /\ order' = NotCalled
    /\ IF ~HasVertex(dependencies_graph, dep_name)
       THEN /\ pdm_result' = DependencyMissing
            /\ UNCHANGED dependencies_graph
       ELSE /\ ProviderCount(dependencies_graph) < MaxProviders
            /\ pdm_result' = OK
            /\ dependencies_graph' =
                   MarkSatisfied(
                       [dependencies_graph EXCEPT !.providers[dep_name] =
                            WithProvider(@, version, provider)],
                       dep_name, version)

\* What remove_require raises: "Dependency ... does not exist".
NoDependency == "Exception: Dependency %s does not exist"

\* remove_require(dep_name, require, min_version, max_version): raises for a
\* dependency that is not in the graph, and does nothing else.
RemoveRequire(dep_name, require, min_version, max_version) ==
    /\ UNCHANGED <<containerVars, nanoppVars, platformVars, order_calls>>
    /\ order' = NotCalled
    /\ pdm_result' = IF ~HasVertex(dependencies_graph, dep_name) THEN NoDependency ELSE OK
    /\ UNCHANGED dependencies_graph

\* mutant: remove_dependency takes the vertex of that name out of the list
RemoveDependencyFromGraph(dep_name) ==
    /\ UNCHANGED <<containerVars, nanoppVars, platformVars, order_calls>>
    /\ order' = NotCalled
    /\ pdm_result' = OK
    /\ dependencies_graph' =
           [dependencies_graph EXCEPT
               !.vertices = SelectSeq(@, LAMBDA name : name # dep_name)]

\* remove_dependency(dep_name): "pass"
RemoveDependency(dep_name) ==
    /\ UNCHANGED <<containerVars, nanoppVars, platformVars, order_calls>>
    /\ order' = NotCalled
    /\ pdm_result' = OK
    /\ UNCHANGED dependencies_graph

\* reverese_dependency_order(): the marks stay on the graph; the list is
\* returned unless RecursionError ends the call.
ReverseDependencyOrder ==
    LET st == ReverseDependencyOrderOf(dependencies_graph)
    IN  /\ UNCHANGED <<containerVars, nanoppVars, platformVars>>
        /\ order_calls < MaxOrderCalls
        /\ order_calls' = order_calls + 1
        /\ dependencies_graph' = st.graph
        /\ order' = IF st.overflow THEN NotCalled ELSE st.list
        /\ pdm_result' = IF st.overflow THEN RecursionError ELSE OK

\* The bound on the calls of reverese_dependency_order() after the first.
MaxMoreOrderCalls == 1

\* reverese_dependency_order(), called again: the same method, on the
\* graph as the earlier calls and the registrations since left it.
ReverseDependencyOrderAgain ==
    LET st == ReverseDependencyOrderOf(dependencies_graph)
    IN  /\ UNCHANGED <<containerVars, nanoppVars, platformVars>>
        /\ order_calls >= MaxOrderCalls
        /\ order_calls < MaxOrderCalls + MaxMoreOrderCalls
        /\ order_calls' = order_calls + 1
        /\ dependencies_graph' = st.graph
        /\ order' = IF st.overflow THEN NotCalled ELSE st.list
        /\ pdm_result' = IF st.overflow THEN RecursionError ELSE OK

RequiresNew ==
    /\ dependencies_graph = NewDependenciesGraph
    /\ order = NotCalled
    /\ order_calls = 0
    /\ pdm_result = OK

-----------------------------------------------------------------------------
(***************************************************************************)
(* termite.platform.PluginManager and the batch loops of Platform. A       *)
(* container is named by its place in containers (the identity of the      *)
(* object); 0 stands for None. A manifest is what the loader delivers: id, *)
(* version, requires (name, version_range), exports (name, version) and    *)
(* plugin_classes. A hook class is "ok" or "bad": the activate of a "bad"  *)
(* hook raises.                                                            *)
(***************************************************************************)
\* What the calls raise besides the exceptions above (and AttributeError).
NotRegistered == "Exception: Plugin is not registered"
AlreadyAdded == "Exception: Plugin already added"
UnsatisfiedDependencyException == "UnsatisfiedDependencyException"

\* The methods of termite.dependencies.PluginDependenciesManager.
PluginDependenciesManagerMethods ==
    {"dependency", "add_provider", "require", "__new_dependency__",
     "reverese_dependency_order", "__follow__", "__all_visited__",
     "__mark_all_in_edg__", "get_dependency", "remove_require", "remove_dependency"}

\* dict.get(key): the container stored under the key, 0 when there is none
DictGet(dict, key) ==
    IF \E i \in DOMAIN dict : dict[i].key = key
    THEN dict[CHOOSE i \in DOMAIN dict : dict[i].key = key].pc
    ELSE 0

\* del dict[key]
DictDel(dict, key) == SelectSeq(dict, LAMBDA e : e.key # key)

\* PluginContainer(plugin_ref, ...) after its load(): the manifest is read
\* and the state is Uninstalled.
LoadedContainer(plugin_ref, manifest) ==
    [plugin_ref |-> plugin_ref, manifest |-> manifest,
     plugin_state |-> STATE_UNINSTALLED,
     plugin_hooks |-> [is_none |-> FALSE, items |-> <<>>]]

\* The hooks whose activate raises.
RaisingHooks(hooks) == {i \in DOMAIN hooks : hooks[i] = "bad"}

\* PluginContainer.install() on a container of the list
InstallOf(c, failAt) ==
    IF ~InstallAllowed(c.plugin_state)
    THEN [pc |-> c, result |-> PluginLifecycleException]
    ELSE LET hooks == c.plugin_hooks.items \o CreatedHooks(c.manifest.plugin_classes, failAt)
         IN  IF failAt # 0
             THEN [pc |-> [c EXCEPT !.plugin_hooks.items = hooks,
                                    !.plugin_state = InstallFailureState],
                   result |-> InstallError("create_hooks")]
             ELSE [pc |-> [c EXCEPT !.plugin_hooks.items = hooks,
                                    !.plugin_state = STATE_INSTALLED],
                   result |-> OK]

\* PluginContainer.activate() on a container of the list
ActivateOf(c) ==
    IF ~ActivateAllowed(c.plugin_state)
    THEN [pc |-> c, result |-> PluginLifecycleException]
    ELSE [pc |-> [c EXCEPT !.plugin_state =
                      ActivateOutcome(c.plugin_hooks.items,
                                      RaisingHooks(c.plugin_hooks.items))],
          result |-> OK]

\* PluginContainer.deactivate() on a container of the list
DeactivateOf(c) ==
    IF ~DeactivateAllowed(c.plugin_state)
    THEN [pc |-> c, result |-> PluginLifecycleException]
    ELSE [pc |-> [c EXCEPT !.plugin_state = STATE_DEACTIVATED], result |-> OK]

\* PluginContainer.uninstall() on a container of the list
UninstallOf(c) ==
    IF ~UninstallAllowed(c.plugin_state)
    THEN [pc |-> c, result |-> PluginLifecycleException]
    ELSE [pc |-> [c EXCEPT !.plugin_state = STATE_UNINSTALLED], result |-> OK]

\* A container method was invoked from a manager call: the container the
\* method leaves, the method added to the trace, and how it returned.
Invoked(st, method, pc, r) ==
    [containers |-> [st.containers EXCEPT ![pc] = r.pc],
     trace |-> Append(st.trace, <<method, pc>>),
     result |-> r.result]

\* PluginManager.activate_plugin(plugin_id)
ActivatePluginOf(st, plugin_id) ==
    LET pc == DictGet(plugins_by_id, plugin_id)
    IN  IF pc = 0 THEN [st EXCEPT !.result = NotRegistered]
        ELSE Invoked(st, "activate", pc, ActivateOf(st.containers[pc]))

\* PluginManager.deactivate_plugin(plugin_id): deactivate() only in Active
DeactivatePluginOf(st, plugin_id) ==
    LET pc == DictGet(plugins_by_id, plugin_id)
    IN  IF pc = 0 THEN [st EXCEPT !.result = NotRegistered]
        ELSE IF st.containers[pc].plugin_state = STATE_ACTIVE
        THEN Invoked(st, "deactivate", pc, DeactivateOf(st.containers[pc]))
        ELSE st

\* PluginManager.uninstall_plugin(plugin_id)
UninstallPluginOf(st, plugin_id) ==
    LET pc == DictGet(plugins_by_id, plugin_id)
    IN  IF pc = 0 THEN [st EXCEPT !.result = NotRegistered]
        ELSE Invoked(st, "uninstall", pc, UninstallOf(st.containers[pc]))

\* PluginManager.install_plugin(plugin_id): get_plugin, then the call of
\* dependencies_manager.all_dependencies_satisfied, which raises
\* AttributeError as PluginDependenciesManager has no such method; the
\* statements after it (plugin_finder.add_plugin, plugin.install()) are not
\* reached.
InstallPluginOf(st, plugin_id) ==
    LET pc == DictGet(plugins_by_id, plugin_id)
    IN  IF pc = 0 THEN [st EXCEPT !.result = NotRegistered]
        ELSE IF "all_dependencies_satisfied" \notin PluginDependenciesManagerMethods
        THEN [st EXCEPT !.trace = Append(@, <<"install_plugin", pc>>),
                        !.result = AttributeError]
        ELSE Invoked([st EXCEPT !.trace = Append(@, <<"install_plugin", pc>>)],
                     "install", pc, InstallOf(st.containers[pc], 0))

\* PluginManager.get_all_plugins(): the containers of plugins_by_id
GetAllPlugins == [i \in DOMAIN plugins_by_id |-> plugins_by_id[i].pc]

\* mutant: activate_all_plugins without its try block
ActivateAllStepNoCatch(st, pc) ==
    ActivatePluginOf(st, st.containers[pc].manifest.id)

\* Platform.activate_all_plugins, the body of the loop: activate_plugin,
\* and deactivate_plugin when it raises.
ActivateAllStep(st, pc) ==
    LET a == ActivatePluginOf(st, st.containers[pc].manifest.id)
    IN  IF a.result = OK THEN a
        ELSE DeactivatePluginOf([a EXCEPT !.result = OK], st.containers[pc].manifest.id)

\* Platform.deactivate_all_plugins, the body of the loop
DeactivateAllStep(st, pc) ==
    IF st.containers[pc].plugin_state = STATE_ACTIVE
    THEN [DeactivatePluginOf(st, st.containers[pc].manifest.id) EXCEPT !.result = OK]
    ELSE st

\* Platform.uninstall_all_plugins, the body of the loop
UninstallAllStep(st, pc) ==
    IF \/ st.containers[pc].plugin_state = STATE_INSTALLED
       \/ st.containers[pc].plugin_state = STATE_DEACTIVATED
    THEN [UninstallPluginOf(st, st.containers[pc].manifest.id) EXCEPT !.result = OK]
    ELSE st

\* Platform.destroy_all_plugins, the body of the loop: the call made on an
\* Uninstalled container is deactivate_plugin.
DestroyAllStep(st, pc) ==
    IF st.containers[pc].plugin_state = STATE_UNINSTALLED
    THEN [DeactivatePluginOf(st, st.containers[pc].manifest.id) EXCEPT !.result = OK]
    ELSE st

\* The loop of a batch call over the list get_all_plugins() returned; an
\* exception that leaves the body ends the loop.
RECURSIVE Batch(_, _, _)
Batch(op, st, pcs) ==
    IF pcs = <<>> \/ st.result # OK THEN st
    ELSE Batch(op,
               CASE op = "activate_all_plugins" -> ActivateAllStep(st, Head(pcs))
                 [] op = "deactivate_all_plugins" -> DeactivateAllStep(st, Head(pcs))
                 [] op = "uninstall_all_plugins" -> UninstallAllStep(st, Head(pcs))
                 [] op = "destroy_all_plugins" -> DestroyAllStep(st, Head(pcs)),
               Tail(pcs))

\* The state a manager call starts from.
CallStart == [containers |-> containers, trace |-> <<>>, result |-> OK]

\* PluginDependenciesManager.require as a function of the graph: the graph
\* it leaves and how it returns.
Required(g, dep_name, require, min_version, max_version) ==
    LET g2 == WithDependencyVertex(WithDependencyVertex(g, require), dep_name)
        req == NewRequire(require, dep_name, min_version, max_version)
    IN  IF RequireId(req) \in g2.ids
        THEN [graph |-> g2, result |-> EdgeExists]
        ELSE [graph |-> [LinkEdge(g2, req, RequireId(req)) EXCEPT
                             !.emarks = Append(@, NoMark)],
              result |-> OK]

\* PluginDependenciesManager.add_provider as a function of the graph
ProviderAdded(g, dep_name, version, provider) ==
    IF ~HasVertex(g, dep_name)
    THEN [graph |-> g, result |-> DependencyMissing]
    ELSE [graph |-> MarkSatisfied([g EXCEPT !.providers[dep_name] =
                                       WithProvider(@, version, provider)],
                                  dep_name, version),
          result |-> OK]

\* __load_dependencies__, the loop over manifest.requires
RECURSIVE RequireEach(_, _, _)
RequireEach(gr, plugin_id, requires) ==
    IF requires = <<>> \/ gr.result # OK THEN gr
    ELSE RequireEach(
             Required(WithDependencyVertex(gr.graph, plugin_id), plugin_id,
                      Head(requires).name,
                      Head(requires).version_range[1],
                      Head(requires).version_range[2]),
             plugin_id, Tail(requires))

\* __load_dependencies__, the loop over manifest.exports
RECURSIVE ExportEach(_, _, _)
ExportEach(gr, pc, exports) ==
    IF exports = <<>> \/ gr.result # OK THEN gr
    ELSE ExportEach(
             ProviderAdded(WithDependencyVertex(gr.graph, Head(exports).name),
                           Head(exports).name, Head(exports).version, pc),
             pc, Tail(exports))

\* PluginManager.__load_dependencies__(pc) (what __build_dependecies__ calls)
LoadDependencies(g, pc, manifest) ==
    LET own == ProviderAdded(WithDependencyVertex(g, manifest.id),
                             manifest.id, manifest.version, pc)
    IN  ExportEach(RequireEach(own, manifest.id, manifest.requires),
                   pc, manifest.exports)

\* The containers among the providers of the dependencies of a list, the
\* elements of prov_set in install_all_plugins.
ProvidersOf(g, names) ==
    UNION {UNION {Range(g.providers[names[n]][i].providers) :
                      i \in DOMAIN g.providers[names[n]]} : n \in DOMAIN names}

\* The references, and the manifests the loader delivers for them: q needs
\* nothing and exports x; p requires q in [1, 2); a later version of p that
\* requires the same and has other hooks.
PluginRefs == {"r1", "r2"}

RangeOneTwo ==
    <<[form |-> "tuple", v |-> 1, incl |-> TRUE], [form |-> "tuple", v |-> 2, incl |-> FALSE]>>

Manifests ==
    { [id |-> "q", version |-> 1, requires |-> <<>>,
       exports |-> <<[name |-> "x", version |-> 1]>>, plugin_classes |-> <<"ok">>],
      [id |-> "p", version |-> 1,
       requires |-> <<[name |-> "q", version_range |-> RangeOneTwo]>>,
       exports |-> <<>>, plugin_classes |-> <<"ok", "bad">>],
      [id |-> "p", version |-> 2,
       requires |-> <<[name |-> "q", version_range |-> RangeOneTwo]>>,
       exports |-> <<>>, plugin_classes |-> <<"ok">>] }

PluginIds == {m.id : m \in Manifests}

\* The bounds on the containers add_plugin creates and on the hooks the
\* installs of one container append to its plugin_hooks.
MaxContainers == 2

MaxPluginHooks == 2

PmCall(op, arg, result) == [op |-> op, arg |-> arg, result |-> result]

\* add_plugin(plugin_ref): refused for a reference that is registered;
\* otherwise a container is created and loaded, and registered, or, when
\* its id is managed already, handed to reload_plugin, which unregisters
\* the old container (dependencies_built is never set, so nothing is
\* cleaned up); then the dependencies of the new container are loaded.
AddPlugin(plugin_ref, manifest) ==
    /\ UNCHANGED <<containerVars, nanoppVars, graphVars, order, order_calls, pdm_result>>
    /\ IF DictGet(plugins_by_ref, plugin_ref) # 0
       THEN /\ pm_call' = PmCall("add_plugin", plugin_ref, AlreadyAdded)
            /\ pm_trace' = <<>>
            /\ UNCHANGED <<containers, plugins_by_ref, plugins_by_id, dependencies_graph>>
       ELSE /\ Len(containers) < MaxContainers
            /\ LET pc == Len(containers) + 1
                   old == DictGet(plugins_by_id, manifest.id)
                   built == LoadDependencies(dependencies_graph, pc, manifest)
               IN  /\ containers' = Append(containers, LoadedContainer(plugin_ref, manifest))
                   /\ IF old # 0
                      THEN /\ plugins_by_id' = DictDel(plugins_by_id, manifest.id)
                           /\ plugins_by_ref' =
                                  DictDel(plugins_by_ref, containers[old].plugin_ref)
                      ELSE /\ plugins_by_ref' =
                                  Append(plugins_by_ref, [key |-> plugin_ref, pc |-> pc])
                           /\ plugins_by_id' =
                                  Append(plugins_by_id, [key |-> manifest.id, pc |-> pc])
                   /\ dependencies_graph' = built.graph
                   /\ pm_call' = PmCall("add_plugin", plugin_ref, built.result)
                   /\ pm_trace' = <<<<"load", pc>>>>

\* The end of a call that only works on the containers.
Returned(op, arg, st) ==
    /\ containers' = st.containers
    /\ pm_trace' = st.trace
    /\ pm_call' = PmCall(op, arg, st.result)
    /\ UNCHANGED <<plugins_by_ref, plugins_by_id>>

\* install_plugin(plugin_id)
InstallPlugin(plugin_id) ==
    /\ UNCHANGED <<containerVars, nanoppVars, requireVars, graphVars>>
    /\ Returned("install_plugin", plugin_id, InstallPluginOf(CallStart, plugin_id))

\* uninstall_plugin(plugin_id)
UninstallPlugin(plugin_id) ==
    /\ UNCHANGED <<containerVars, nanoppVars, requireVars, graphVars>>
    /\ Returned("uninstall_plugin", plugin_id, UninstallPluginOf(CallStart, plugin_id))

\* install_all_plugins(): the order of the dependencies, the set of their
\* providers, and install_plugin for each element of the set, in the
\* order the set yields them; the first exception ends the call.
InstallAllPlugins ==
    LET o == ReverseDependencyOrderOf(dependencies_graph)
        prov_set == ProvidersOf(o.graph, o.list)
    IN  /\ UNCHANGED <<containerVars, nanoppVars, graphVars, order, order_calls, pdm_result>>
        /\ dependencies_graph' = o.graph
        /\ IF o.overflow
           THEN Returned("install_all_plugins", "", [CallStart EXCEPT !.result = RecursionError])
           ELSE IF prov_set = {}
           THEN Returned("install_all_plugins", "", CallStart)
           ELSE \E first \in prov_set :
                    Returned("install_all_plugins", "",
                             InstallPluginOf(CallStart, containers[first].manifest.id))

\* get_plugin(plugin_id).install(): install() called on a managed container
ContainerInstall(plugin_id, failAt) ==
    LET pc == DictGet(plugins_by_id, plugin_id)
    IN  /\ UNCHANGED <<containerVars, nanoppVars, requireVars, graphVars>>
        /\ pc # 0
        /\ failAt \in 0..Len(containers[pc].manifest.plugin_classes)
        /\ Len(containers[pc].plugin_hooks.items)
               + Len(containers[pc].manifest.plugin_classes) <= MaxPluginHooks
        /\ Returned("install", plugin_id,
                    Invoked(CallStart, "install", pc, InstallOf(containers[pc], failAt)))

\* Platform.activate_all_plugins()
ActivateAllPlugins ==
    /\ UNCHANGED <<containerVars, nanoppVars, requireVars, graphVars>>
    /\ Returned("activate_all_plugins", "",
                Batch("activate_all_plugins", CallStart, GetAllPlugins))

\* Platform.deactivate_all_plugins()
DeactivateAllPlugins ==
    /\ UNCHANGED <<containerVars, nanoppVars, requireVars, graphVars>>
    /\ Returned("deactivate_all_plugins", "",
                Batch("deactivate_all_plugins", CallStart, GetAllPlugins))

\* Platform.uninstall_all_plugins()
UninstallAllPlugins ==
    /\ UNCHANGED <<containerVars, nanoppVars, requireVars, graphVars>>
    /\ Returned("uninstall_all_plugins", "",
                Batch("uninstall_all_plugins", CallStart, GetAllPlugins))

\* Platform.destroy_all_plugins()
DestroyAllPlugins ==
    /\ UNCHANGED <<containerVars, nanoppVars, requireVars, graphVars>>
    /\ Returned("destroy_all_plugins", "",
                Batch("destroy_all_plugins", CallStart, GetAllPlugins))

\* Platform.shutdown(): the three loops one after the other, then gc()
Shutdown ==
    /\ UNCHANGED <<containerVars, nanoppVars, requireVars, graphVars>>
    /\ Returned("shutdown", "",
                Batch("destroy_all_plugins",
                      Batch("uninstall_all_plugins",
                            Batch("deactivate_all_plugins", CallStart, GetAllPlugins),
                            GetAllPlugins),
                      GetAllPlugins))

\* PluginManager.__init__
RegistryNew ==
    /\ containers = <<>>
    /\ plugins_by_ref = <<>>
    /\ plugins_by_id = <<>>
    /\ pm_call = PmCall("new", "", OK)
    /\ pm_trace = <<>>

-----------------------------------------------------------------------------
(***************************************************************************)
(* termite.dependencies.Graph on plain vertices: add_vertex, create_edge,  *)
(* add_edge, find_circular_rings and the GraphIterator. The graph record   *)
(* also holds vmarks, the marks of each vertex. Here a vertex is a Vertex  *)
(* object the caller made: the first object made with a name is written as *)
(* the name, a second object made with the name "A" is written "A2". The   *)
(* graph keeps the objects it was given (vertices, the head and tail of an *)
(* edge) and looks vertices up by name (vertices_by_name).                 *)
(***************************************************************************)
VertexExists == "Exception: Vertex already added"
UnknownVertex == "Exception: Edge to a vertex not known to this graph"
IndexError == "IndexError"
StopIteration == "StopIteration"

\* Vertex.name / Vertex.id() of a vertex object
NameOf(vertex) == IF vertex = "A2" THEN "A" ELSE vertex

\* vertices_by_name.get(name) is not None
VertexNamed(g, name) == \E v \in Range(g.vertices) : NameOf(v) = name

\* A vertex object the graph has not met gets its edges list and its marks
\* (Vertex.__init__, Markable.__init__).
WithVertexObject(g, vertex) ==
    IF vertex \in DOMAIN g.incidence THEN g
    ELSE [g EXCEPT !.incidence = @ @@ (vertex :> <<>>),
                   !.vmarks = @ @@ (vertex :> NoMark)]

\* mutant: the slice is taken on the other side of the head
RingUpTo(backtrack, head) ==
    IF \E i \in DOMAIN backtrack : backtrack[i] = head
    THEN SubSeq(backtrack, 1,
                CHOOSE i \in DOMAIN backtrack :
                    backtrack[i] = head /\ \A j \in 1..(i - 1) : backtrack[j] # head)
    ELSE <<>>

\* The ring of a detected cycle: backtrack from the first place of head on.
RingFrom(backtrack, head) ==
    IF \E i \in DOMAIN backtrack : backtrack[i] = head
    THEN SubSeq(backtrack,
                CHOOSE i \in DOMAIN backtrack :
                    backtrack[i] = head /\ \A j \in 1..(i - 1) : backtrack[j] # head,
                Len(backtrack))
    ELSE <<>>

\* __traverse_cr__(vertex, backtrack, visited, rings): backtrack, visited
\* and rings are the objects of the caller, so what a call adds to them
\* stays when it returns.
RECURSIVE TraverseCr(_, _)
RECURSIVE TraverseCrEdges(_, _)
TraverseCr(st, vertex) ==
    IF st.graph.vmarks[vertex].default # "None" THEN st
    ELSE TraverseCrEdges(
             [st EXCEPT !.graph.vmarks[vertex].default = "visited",
                        !.backtrack = Append(@, vertex),
                        !.visited = @ \cup {NameOf(vertex)}],
             OutEdges(st.graph, vertex))

\* the loop over the out edges of the vertex
TraverseCrEdges(st, outs) ==
    IF outs = <<>> THEN st
    ELSE LET head == st.graph.edges[Head(outs)].head
             found == IF NameOf(head) \in st.visited
                      THEN [st EXCEPT !.rings = Append(@, RingFrom(st.backtrack, head))]
                      ELSE st
         IN  TraverseCrEdges(
                 IF found.graph.vmarks[head].default = "None"
                 THEN TraverseCr(found, head)
                 ELSE found,
                 Tail(outs))

\* find_circular_rings: __traverse_cr__ from every vertex in list order,
\* each with a new backtrack and a new visited, all with the one rings.
RECURSIVE TraverseCrEach(_, _)
TraverseCrEach(st, vs) ==
    IF vs = <<>> THEN st
    ELSE TraverseCrEach(
             TraverseCr([st EXCEPT !.backtrack = <<>>, !.visited = {}], Head(vs)),
             Tail(vs))

FindCircularRingsOf(g) ==
    TraverseCrEach([graph |-> g, backtrack |-> <<>>, visited |-> {}, rings |-> <<>>],
                   g.vertices)

\* is_circular(), from the list find_circular_rings returned
IsCircular(found) == Len(found) > 0

\* The edges create_edge is asked for (tail, head) and the bound on the
\* edges of a graph.
EdgeChoices ==
    { <<"A", "B">>, <<"B", "A">>, <<"B", "C">>, <<"C", "A">>, <<"A", "C">>,
      <<"C", "B">>, <<"C", "D">>, <<"D", "C">>, <<"A", "A">> }

MaxGraphEdges == 4

\* Whether no vertex of the graph carries a mark.
Fresh(g) == \A v \in Range(g.vertices) : g.vmarks[v].default = "None"

\* The value of rings while find_circular_rings has not been the last call.
NoRings == <<NotCalled>>

\* The vertices are created in the order of VertexOrder: the names a call
\* of add_vertex may be made with are those of the graph and the next one.
VertexOrder == <<"A", "B", "C", "D">>

OfferedNames ==
    {VertexOrder[i] : i \in {j \in DOMAIN VertexOrder : j <= Len(graph.vertices) + 1}}

\* No GraphIterator is in use.
NoIterator == [active |-> FALSE, stack |-> <<>>, current_vertex |-> 0]

\* A call that changes the graph or its marks: the result of the last
\* search is gone, and the iterator made before the call is not used again.
GraphChanged ==
    /\ rings' = NoRings
    /\ iterator' = NoIterator
    /\ yielded' = <<>>

\* mutant: add_vertex refuses the vertex object it holds, not the name
GraphAddVertexByObject(vertex) ==
    /\ UNCHANGED <<containerVars, nanoppVars, requireVars, registryVars>>
    /\ GraphChanged
    /\ IF HasVertex(graph, vertex)
       THEN /\ graph_result' = VertexExists
            /\ UNCHANGED graph
       ELSE /\ graph_result' = OK
            /\ graph' = [AddVertex(graph, vertex) EXCEPT
                             !.vmarks = @ @@ (vertex :> NoMark)]

\* graph.add_vertex(vertex): refused when a vertex of the name is held
GraphAddVertex(vertex) ==
    /\ UNCHANGED <<containerVars, nanoppVars, requireVars, registryVars>>
    /\ GraphChanged
    /\ IF VertexNamed(graph, NameOf(vertex))
       THEN /\ graph_result' = VertexExists
            /\ UNCHANGED graph
       ELSE /\ graph_result' = OK
            /\ graph' = [AddVertex(graph, vertex) EXCEPT
                             !.vmarks = @ @@ (vertex :> NoMark)]

\* add_edge and create_edge past their checks: the edge is stored under
\* the id made of the two names and appended to the lists of its two
\* vertex objects.
EdgeAdded(g, tail, head) ==
    LinkEdge(WithVertexObject(WithVertexObject(g, head), tail),
             [head |-> head, tail |-> tail], EdgeId(NameOf(head), NameOf(tail)))

\* graph.create_edge(tail_vertex, head_vertex)
GraphCreateEdge(tail, head) ==
    /\ UNCHANGED <<containerVars, nanoppVars, requireVars, registryVars>>
    /\ GraphChanged
    /\ IF ~(VertexNamed(graph, NameOf(head)) /\ VertexNamed(graph, NameOf(tail)))
       THEN /\ graph_result' = UnknownVertex
            /\ UNCHANGED graph
       ELSE IF EdgeId(NameOf(head), NameOf(tail)) \in graph.ids
       THEN /\ graph_result' = EdgeExists
            /\ UNCHANGED graph
       ELSE /\ Len(graph.edges) < MaxGraphEdges
            /\ graph_result' = OK
            /\ graph' = EdgeAdded(graph, tail, head)

\* graph.add_edge(Edge(head, tail)): an Edge the caller made
GraphAddEdge(tail, head) ==
    /\ UNCHANGED <<containerVars, nanoppVars, requireVars, registryVars>>
    /\ GraphChanged
    /\ IF ~(VertexNamed(graph, NameOf(head)) /\ VertexNamed(graph, NameOf(tail)))
       THEN /\ graph_result' = UnknownVertex
            /\ graph' = graph
       ELSE IF EdgeId(NameOf(head), NameOf(tail)) \in graph.ids
       THEN /\ graph_result' = EdgeExists
            /\ graph' = graph
       ELSE /\ Len(graph.edges) < MaxGraphEdges
            /\ graph_result' = OK
            /\ graph' = EdgeAdded(graph, tail, head)

\* graph.find_circular_rings(): the marks stay on the vertices
FindCircularRings ==
    LET st == FindCircularRingsOf(graph)
    IN  /\ UNCHANGED <<containerVars, nanoppVars, requireVars, registryVars>>
        /\ graph' = st.graph
        /\ rings' = st.rings
        /\ graph_result' = OK
        /\ iterator' = NoIterator
        /\ yielded' = <<>>

\* GraphIterator.__next_from_stack__(stack). The state of a call of
\* __next__ is the graph (for its marks), the stack, current_vertex, the
\* vertex returned ("None" for None) and how the call ends; pop() of the
\* empty stack raises IndexError.
NextFromStack(st) ==
    IF st.stack = <<>> THEN [st EXCEPT !.result = IndexError]
    ELSE LET vertex == st.stack[Len(st.stack)]
             popped == SubSeq(st.stack, 1, Len(st.stack) - 1)
             outs == OutEdges(st.graph, vertex)
             heads == [k \in DOMAIN outs |-> st.graph.edges[outs[k]].head]
         IN  IF st.graph.vmarks[vertex].default = "None"
             THEN [st EXCEPT
                      !.stack = popped \o SelectSeq(heads,
                                    LAMBDA h : st.graph.vmarks[h].default = "None"),
                      !.graph.vmarks[vertex].default = "DISCOVERED",
                      !.vertex = vertex]
             ELSE [st EXCEPT !.stack = popped, !.vertex = "None"]

\* __next__, the loop "while vertex is None"
RECURSIVE UntilVertex(_)
UntilVertex(st) ==
    LET r == NextFromStack(st)
    IN  IF r.result # OK \/ r.vertex # "None" THEN r ELSE UntilVertex(r)

\* GraphIterator.__next__: from the stack when it holds something,
\* otherwise from the first unmarked vertex at current_vertex or after it,
\* which is pushed; StopIteration when there is none.
IterNextOf(st) ==
    IF Len(st.stack) > 0 THEN UntilVertex(st)
    ELSE LET vs == st.graph.vertices
             unmarked == {i \in (st.current_vertex + 1)..Len(vs) :
                              st.graph.vmarks[vs[i]].default = "None"}
             first == CHOOSE i \in unmarked : \A j \in unmarked : i <= j
         IN  IF st.current_vertex >= Len(vs) THEN [st EXCEPT !.result = StopIteration]
             ELSE IF unmarked = {}
             THEN [st EXCEPT !.current_vertex = Len(vs), !.result = StopIteration]
             ELSE UntilVertex([st EXCEPT !.current_vertex = first - 1,
                                         !.stack = <<vs[first]>>])

\* iter(graph): Graph.__iter__ makes a GraphIterator on the graph itself
\* (__clone__ returns self).
GraphIter ==
    /\ UNCHANGED <<containerVars, nanoppVars, requireVars, registryVars, graph>>
    /\ iterator' = [active |-> TRUE, stack |-> <<>>, current_vertex |-> 0]
    /\ yielded' = <<>>
    /\ rings' = NoRings
    /\ graph_result' = OK

\* next(iterator)
GraphIterNext ==
    LET r == IterNextOf([graph |-> graph, stack |-> iterator.stack,
                         current_vertex |-> iterator.current_vertex,
                         vertex |-> "None", result |-> OK])
    IN  /\ UNCHANGED <<containerVars, nanoppVars, requireVars, registryVars>>
        /\ iterator.active
        /\ graph' = r.graph
        /\ iterator' = [active |-> TRUE, stack |-> r.stack,
                        current_vertex |-> r.current_vertex]
        /\ yielded' = IF r.result = OK THEN Append(yielded, r.vertex) ELSE yielded
        /\ rings' = NoRings
        /\ graph_result' = r.result

\* The vertex objects offered to a graph whose edges are made on objects
\* of the caller: two objects named "A" and one named "B".
EndpointObjects == {"A", "A2", "B"}

\* Graph.__init__
GraphNew ==
    /\ graph = NewGraph @@ [vmarks |-> <<>>]
    /\ rings = NoRings
    /\ graph_result = OK
    /\ iterator = NoIterator
    /\ yielded = <<>>

-----------------------------------------------------------------------------
(***************************************************************************)
(* The specifications                                                      *)
(***************************************************************************)
InitInstallOrder ==
    /\ plugin_classes = <<>>
    /\ ContainerNew
    /\ ManagerNew
    /\ SupportNew
    /\ RequiresNew
    /\ RegistryNew
    /\ GraphNew

\* The declarations of the example are made in any order, each at most
\* once more than allowed, and the install order is asked for at any point.
NextInstallOrder ==
    \/ \E dep_id \in ExampleIds : AddDependency(dep_id, ExampleDependsOn(dep_id))
    \/ GetInstallOrder

SpecInstallOrder == InitInstallOrder /\ [][NextInstallOrder]_vars

\* Declarations of any shape are made in any order and the install order
\* is asked for at any point.
NextAnyOrder ==
    \/ \E dep_id \in AnyIds, depends_on \in DependsOnChoices :
          AddDependency(dep_id, depends_on)
    \/ GetInstallOrder

SpecAnyOrder == InitInstallOrder /\ [][NextAnyOrder]_vars

InitRequires ==
    /\ plugin_classes = <<>>
    /\ ContainerNew
    /\ ManagerNew
    /\ SupportNew
    /\ RequiresNew
    /\ RegistryNew
    /\ GraphNew

\* The requirement graph and its order.
NextRequires ==
    \/ \E name \in DepNames : Dependency(name)
    \/ \E dep_name \in DepNames, require \in DepNames, range \in VersionRanges :
          Require(dep_name, require, range[1], range[2])
    \/ ReverseDependencyOrder

SpecRequires == InitRequires /\ [][NextRequires]_vars

\* The requirement graph and its order, asked for more than once.
NextReorder ==
    \/ \E name \in DepNames : Dependency(name)
    \/ \E dep_name \in DepNames, require \in DepNames, range \in VersionRanges :
          Require(dep_name, require, range[1], range[2])
    \/ ReverseDependencyOrder
    \/ ReverseDependencyOrderAgain

SpecReorder == InitRequires /\ [][NextReorder]_vars

\* The requirement graph and its providers.
NextProviders ==
    \/ \E name \in DepNames : Dependency(name)
    \/ \E dep_name \in DepNames, require \in DepNames, range \in VersionRanges :
          Require(dep_name, require, range[1], range[2])
    \/ \E dep_name \in DepNames, version \in ProviderVersions :
          AddProvider(dep_name, version, "p")

SpecProviders == InitRequires /\ [][NextProviders]_vars

InitContainer ==
    /\ plugin_classes \in ManifestChoices
    /\ ContainerNew
    /\ ManagerNew
    /\ SupportNew
    /\ RequiresNew
    /\ RegistryNew
    /\ GraphNew

NextContainer ==
    \/ \E loaderFails \in BOOLEAN : Load(loaderFails)
    \/ \E resolveRaises \in BOOLEAN, failAt \in 0..Len(plugin_classes) :
          Install(resolveRaises, failAt)
    \/ \E raises \in HookSets : Activate(raises)
    \/ \E raises \in HookSets : Deactivate(raises)
    \/ Uninstall
    \/ Dispose

\* nanopp.plugins.support.RequiresEntry: an entry is made and asked for
\* versions.
InitSupport ==
    /\ plugin_classes = <<>>
    /\ ContainerNew
    /\ ManagerNew
    /\ \E range \in RangeChoices : version_range = RequiresEntryRange(range)
    /\ in_range = NotChecked
    /\ RequiresNew
    /\ RegistryNew
    /\ GraphNew

NextSupport == \E version \in VersionChoices : VersionInRange(version)

SpecSupport == InitSupport /\ [][NextSupport]_vars

SpecContainer == InitContainer /\ [][NextContainer]_vars

\* nanopp.platform.PluginContainer
NextNanoppContainer ==
    \/ \E loaderFails \in BOOLEAN : NanoppLoad(loaderFails)
    \/ \E resolveRaises \in BOOLEAN, failAt \in 0..Len(plugin_classes) :
          NanoppInstall(resolveRaises, failAt)
    \/ \E own \in HookSets : NanoppActivate(own)
    \/ \E op \in {"deactivate", "uninstall", "dispose"} : NanoppPass(op)

SpecNanoppContainer == InitContainer /\ [][NextNanoppContainer]_vars

InitPlugins ==
    /\ plugin_classes = <<>>
    /\ ContainerNew
    /\ ManagerNew
    /\ SupportNew
    /\ RequiresNew
    /\ RegistryNew
    /\ GraphNew

\* The plugin manager: plugins are added, installed one by one or all
\* together, and taken through the batch loops of the platform.
NextPlugins ==
    \/ \E plugin_ref \in PluginRefs, manifest \in Manifests : AddPlugin(plugin_ref, manifest)
    \/ \E plugin_id \in PluginIds : InstallPlugin(plugin_id)
    \/ InstallAllPlugins
    \/ \E plugin_id \in PluginIds, failAt \in 0..MaxPluginHooks : ContainerInstall(plugin_id, failAt)
    \/ ActivateAllPlugins
    \/ DeactivateAllPlugins
    \/ UninstallAllPlugins
    \/ DestroyAllPlugins
    \/ Shutdown

SpecPlugins == InitPlugins /\ [][NextPlugins]_vars

\* The plugin manager and its dependencies manager, with the calls that
\* are to take something away again (the graph is filled by add_plugin,
\* through dependency, add_provider and require).
NextRemovals ==
    \/ \E plugin_ref \in PluginRefs, manifest \in Manifests : AddPlugin(plugin_ref, manifest)
    \/ \E plugin_id \in PluginIds : InstallPlugin(plugin_id)
    \/ InstallAllPlugins
    \/ \E plugin_id \in PluginIds, failAt \in 0..MaxPluginHooks : ContainerInstall(plugin_id, failAt)
    \/ \E plugin_id \in PluginIds : UninstallPlugin(plugin_id)
    \/ ActivateAllPlugins
    \/ DeactivateAllPlugins
    \/ UninstallAllPlugins
    \/ DestroyAllPlugins
    \/ Shutdown
    \/ \E dep_name \in DepNames \cup PluginIds, require \in DepNames, range \in VersionRanges :
          RemoveRequire(dep_name, require, range[1], range[2])
    \/ \E dep_name \in DepNames \cup PluginIds : RemoveDependency(dep_name)

SpecRemovals == InitPlugins /\ [][NextRemovals]_vars

InitRings ==
    /\ plugin_classes = <<>>
    /\ ContainerNew
    /\ ManagerNew
    /\ SupportNew
    /\ RequiresNew
    /\ RegistryNew
    /\ GraphNew

\* A graph is built and searched for rings.
NextRings ==
    \/ \E name \in OfferedNames : GraphAddVertex(name)
    \/ \E edge \in EdgeChoices : GraphCreateEdge(edge[1], edge[2])
    \/ FindCircularRings

SpecRings == InitRings /\ [][NextRings]_vars

\* A graph is built and iterated.
NextIterate ==
    \/ \E name \in OfferedNames : GraphAddVertex(name)
    \/ \E edge \in EdgeChoices : GraphCreateEdge(edge[1], edge[2])
    \/ GraphIter
    \/ GraphIterNext

SpecIterate == InitRings /\ [][NextIterate]_vars

\* A graph is built from vertex objects and edges of the caller.
NextEndpoints ==
    \/ \E vertex \in EndpointObjects : GraphAddVertex(vertex)
    \/ \E tail \in EndpointObjects, head \in EndpointObjects : GraphCreateEdge(tail, head)
    \/ \E tail \in EndpointObjects, head \in EndpointObjects : GraphAddEdge(tail, head)
    \/ FindCircularRings

SpecEndpoints == InitRings /\ [][NextEndpoints]_vars

-----------------------------------------------------------------------------
(***************************************************************************)
(* PluginContainer: properties                                             *)
(***************************************************************************)
\* The hook methods of one name among the calls of the last operation.
CallsOf(method) == SelectSeq(calls, LAMBDA c : c[2] = method)

\* C3: install, activate, deactivate, uninstall and dispose, called in a
\* state outside their source states (install, dispose: Uninstalled;
\* activate: Installed, Deactivated; deactivate: Active; uninstall:
\* Installed, Deactivated), raise PluginLifecycleException and leave
\* plugin_state and plugin_hooks as they were.
C3_RefusedCallsChangeNothing ==
    [][LET Sources(op) ==
               CASE op = "install" -> {STATE_UNINSTALLED}
                 [] op = "dispose" -> {STATE_UNINSTALLED}
                 [] op = "activate" -> {STATE_INSTALLED, STATE_DEACTIVATED}
                 [] op = "deactivate" -> {STATE_ACTIVE}
                 [] op = "uninstall" -> {STATE_INSTALLED, STATE_DEACTIVATED}
       IN  \A op \in {"install", "activate", "deactivate", "uninstall", "dispose"} :
               (call'.op = op /\ plugin_state \notin Sources(op))
                   => /\ call'.result = PluginLifecycleException
                      /\ plugin_state' = plugin_state
                      /\ plugin_hooks' = plugin_hooks]_vars

\* C3 witness: activate() was called in Uninstalled and refused.
C3_Witness ==
    /\ call.op = "activate"
    /\ call.from = STATE_UNINSTALLED
    /\ call.result = PluginLifecycleException
    /\ plugin_state = STATE_UNINSTALLED

C6_FailedInstallDisposes ==
    /\ [](/\ call.op = "install"
          /\ call.from = STATE_UNINSTALLED
          /\ call.fault \in {"resolve_dependencies", "create_hooks"}
          => /\ plugin_state = STATE_DISPOSED
             /\ call.result = (IF call.fault = "resolve_dependencies"
                               THEN ResolveError ELSE CreateHookError))
    /\ [][plugin_state = STATE_DISPOSED
            => /\ plugin_state' = STATE_DISPOSED
               /\ call'.op = "install" => call'.result = PluginLifecycleException]_vars

\* C6 witness: install() called again after create_hooks raised in install().
C6_Witness ==
    /\ call.op = "install"
    /\ call.from = STATE_DISPOSED
    /\ call.result = PluginLifecycleException
    /\ plugin_hooks.is_none = FALSE
    /\ Len(plugin_hooks.items) = 1
    /\ Len(plugin_classes) = 2

\* C7: once the state is Disposed, every load, install, activate,
\* deactivate, uninstall and dispose call raises and the state stays Disposed.
C7_DisposedIsTerminal ==
    [][plugin_state = STATE_DISPOSED
         => /\ plugin_state' = STATE_DISPOSED
            /\ call'.result # OK
            /\ call'.op \in {"load", "install", "activate", "deactivate",
                             "uninstall", "dispose"}]_vars

\* C7 witness: load() called after dispose() and refused.
C7_Witness ==
    /\ call.op = "load"
    /\ call.from = STATE_DISPOSED
    /\ call.result = PluginLifecycleException
    /\ plugin_hooks.is_none
    /\ plugin_state = STATE_DISPOSED

\* C8: load() is accepted only when no state is set or the state is
\* Uninstalled; in Installed, Active or Deactivated it fails and leaves the
\* state unchanged.
C8_LoadOnlyBeforeInstall ==
    [][(call'.op = "load"
          /\ plugin_state \in {STATE_INSTALLED, STATE_ACTIVE, STATE_DEACTIVATED})
         => /\ call'.result # OK
            /\ plugin_state' = plugin_state]_vars

\* C9: activate() in Installed, then deactivate(), then activate(), and on
\* alternating, with hooks that return: every call returns normally, each
\* activate() ends in Active and each deactivate() in Deactivated.
C9_Reactivation ==
    /\ scenario \in {1, 3} => (call.result = OK /\ plugin_state = STATE_ACTIVE)
    /\ scenario = 2 => (call.result = OK /\ plugin_state = STATE_DEACTIVATED)

\* C9 witness: the second activate() of the sequence was made, in Deactivated.
C9_Witness ==
    /\ scenario = 3
    /\ call.op = "activate"
    /\ call.from = STATE_DEACTIVATED
    /\ plugin_state = STATE_ACTIVE

-----------------------------------------------------------------------------
(***************************************************************************)
(* DependenciesManager: properties                                         *)
(***************************************************************************)
\* C2: after add_dependency of A:[B,C], B:[], C:[D,E,F], D:[F], E:[B],
\* F:[E], in that order, get_install_order() returns [B, E, F, D, C, A].
C2_ExampleInstallOrder ==
    (/\ dm_result.op = "get_install_order"
     /\ [i \in DOMAIN dependencies |-> dependencies[i].name]
            = <<"A", "B", "C", "D", "E", "F">>)
        => /\ dm_result.result = OK
           /\ install_order = <<"B", "E", "F", "D", "C", "A">>

\* C2 witness: the order was asked for after the six declarations of the test.
C2_Witness ==
    /\ dm_result.op = "get_install_order"
    /\ Len(dependencies) = 6
    /\ \A i \in 1..6 : dependencies[i].name = <<"A", "B", "C", "D", "E", "F">>[i]
    /\ \A i \in 1..6 : dependencies[i].depends_on = ExampleDependsOn(dependencies[i].name)
    /\ Len(install_order) = 6

-----------------------------------------------------------------------------
(***************************************************************************)
(* PluginDependenciesManager: properties                                   *)
(***************************************************************************)
\* The place of a name in a list of distinct names
PlaceIn(list, name) == CHOOSE i \in DOMAIN list : list[i] = name

\* No chain of Require edges leads from a vertex back to it: the vertices
\* can be ranked so that every edge goes from a higher tail to a lower head.
Acyclic(g) ==
    \E rank \in [Range(g.vertices) -> 1..Len(g.vertices)] :
        \A e \in DOMAIN g.edges : rank[g.edges[e].head] < rank[g.edges[e].tail]

\* reverese_dependency_order() has just been called for the first time.
FirstOrderReturned ==
    order_calls = 1 /\ (order # NotCalled \/ pdm_result = RecursionError)

\* C1: on an acyclic requirement graph the first call of
\* reverese_dependency_order() returns every vertex exactly once, and for
\* every Require edge the head (the required one) before the tail (the
\* dependent one).
C1_DependenciesFirst ==
    (FirstOrderReturned /\ Acyclic(dependencies_graph))
        => /\ pdm_result = OK
           /\ Len(order) = Len(dependencies_graph.vertices)
           /\ Range(order) = Range(dependencies_graph.vertices)
           /\ \A e \in DOMAIN dependencies_graph.edges :
                  PlaceIn(order, dependencies_graph.edges[e].head)
                      < PlaceIn(order, dependencies_graph.edges[e].tail)

\* C1 witness: the first order of an acyclic graph of three vertices whose
\* first vertex requires the two others.
C1_Witness ==
    /\ FirstOrderReturned
    /\ Acyclic(dependencies_graph)
    /\ Len(dependencies_graph.vertices) = 3
    /\ Len(OutEdges(dependencies_graph, dependencies_graph.vertices[1])) = 2
    /\ Len(order) = 3

\* C4: a Require edge reports is_satisfied() if and only if a provider
\* version registered for its head lies within the edge's version range.
C4_SatisfiedIffProviderInRange ==
    LET g == dependencies_graph
        InRange(v, req) ==
            /\ \/ req.min_version.none
               \/ v > req.min_version.v
               \/ (v = req.min_version.v /\ req.min_version.incl)
            /\ \/ req.max_version.none
               \/ v < req.max_version.v
               \/ (v = req.max_version.v /\ req.max_version.incl)
    IN  \A e \in DOMAIN g.edges :
            IsSatisfied(g, e)
                <=> \E i \in DOMAIN g.providers[g.edges[e].head] :
                        InRange(g.providers[g.edges[e].head][i].version, g.edges[e])

-----------------------------------------------------------------------------
(***************************************************************************)
(* PluginManager and Platform: properties                                  *)
(***************************************************************************)
\* The managed containers.
Managed == Range(GetAllPlugins)

\* Container p requires, by its manifest, the plugin of container q.
RequiresPlugin(p, q) ==
    \E i \in DOMAIN containers[p].manifest.requires :
        containers[p].manifest.requires[i].name = containers[q].manifest.id

\* In a trace, method is invoked on q and later on p.
InvokedBefore(trace, method, q, p) ==
    \E i \in DOMAIN trace, j \in DOMAIN trace :
        i < j /\ trace[i] = <<method, q>> /\ trace[j] = <<method, p>>

\* C11: install_all_plugins invokes install on the containers
\* dependencies first: for a managed plugin that requires another managed
\* plugin, install is invoked on the required one and later on the
\* requiring one.
C11_InstallDependenciesFirst ==
    pm_call.op = "install_all_plugins"
        => \A p \in Managed, q \in Managed :
               (p # q /\ RequiresPlugin(p, q)) => InvokedBefore(pm_trace, "install", q, p)

\* C12: install_all_plugins does not raise for the failure of one
\* container, and install_plugin is invoked for every managed container.
C12_InstallAllIsolatesFailures ==
    pm_call.op = "install_all_plugins"
        => /\ pm_call.result = OK
           /\ \A pc \in Managed :
                  \E i \in DOMAIN pm_trace : pm_trace[i] = <<"install_plugin", pc>>

\* Every requirement of the manifest of a container has, in the dependency
\* graph, a provider of the required name with a version in its range.
RequirementsSatisfied(pc) ==
    LET Within(v, rq) ==
            /\ \/ v > rq.version_range[1].v
               \/ (v = rq.version_range[1].v /\ rq.version_range[1].incl)
            /\ \/ v < rq.version_range[2].v
               \/ (v = rq.version_range[2].v /\ rq.version_range[2].incl)
        rqs == containers[pc].manifest.requires
    IN  \A i \in DOMAIN rqs :
            /\ HasVertex(dependencies_graph, rqs[i].name)
            /\ \E k \in DOMAIN dependencies_graph.providers[rqs[i].name] :
                   Within(dependencies_graph.providers[rqs[i].name][k].version, rqs[i])

\* C13: install_plugin(id) of a managed plugin installs it when all its
\* requirements are satisfied, and raises UnsatisfiedDependencyException,
\* without installing it, when one is not.
C13_InstallPluginWhenSatisfied ==
    (pm_call.op = "install_plugin" /\ DictGet(plugins_by_id, pm_call.arg) # 0)
        => LET pc == DictGet(plugins_by_id, pm_call.arg)
           IN  IF RequirementsSatisfied(pc)
               THEN containers[pc].plugin_state = STATE_INSTALLED
               ELSE /\ pm_call.result = UnsatisfiedDependencyException
                    /\ containers[pc].plugin_state # STATE_INSTALLED

C15_FailedActivationIsCleanedUp ==
    [][pm_call'.op = "activate_all_plugins"
          => \A pc \in Managed :
                 (/\ ActivateAllowed(containers[pc].plugin_state)
                  /\ RaisingHooks(containers[pc].plugin_hooks.items) # {})
                     => \E i \in DOMAIN pm_trace', j \in DOMAIN pm_trace' :
                            /\ i < j
                            /\ pm_trace'[i] = <<"activate", pc>>
                            /\ pm_trace'[j] = <<"deactivate", pc>>]_vars

\* C16: deactivate_all_plugins and uninstall_all_plugins reach a plugin
\* that requires another before the plugin it requires.
C16_DependentsFirst ==
    \A p \in Managed, q \in Managed :
        (p # q /\ RequiresPlugin(p, q))
            => /\ (/\ pm_call.op = "deactivate_all_plugins"
                   /\ \E i \in DOMAIN pm_trace : pm_trace[i] = <<"deactivate", p>>
                   /\ \E i \in DOMAIN pm_trace : pm_trace[i] = <<"deactivate", q>>)
                      => InvokedBefore(pm_trace, "deactivate", p, q)
               /\ (/\ pm_call.op = "uninstall_all_plugins"
                   /\ \E i \in DOMAIN pm_trace : pm_trace[i] = <<"uninstall", p>>
                   /\ \E i \in DOMAIN pm_trace : pm_trace[i] = <<"uninstall", q>>)
                      => InvokedBefore(pm_trace, "uninstall", p, q)

\* C17: after destroy_all_plugins every managed container that was
\* Uninstalled is Disposed, its plugin_hooks released.
C17_DestroyAllDisposes ==
    [][pm_call'.op = "destroy_all_plugins"
          => \A pc \in Managed :
                 containers[pc].plugin_state = STATE_UNINSTALLED
                     => /\ containers'[pc].plugin_state = STATE_DISPOSED
                        /\ containers'[pc].plugin_hooks.is_none]_vars

\* C18: add_plugin with a new reference and the id of a managed plugin is
\* a reload: the id is managed by the new container, the old container is
\* registered neither by reference nor by id, and it is no provider in the
\* dependency graph any more.
C18_ReloadReplaces ==
    [][(/\ pm_call'.op = "add_plugin"
        /\ Len(containers') > Len(containers)
        /\ DictGet(plugins_by_id, containers'[Len(containers')].manifest.id) # 0)
          => LET new == Len(containers')
                 old == DictGet(plugins_by_id, containers'[new].manifest.id)
             IN  /\ DictGet(plugins_by_id', containers'[new].manifest.id) = new
                 /\ \A i \in DOMAIN plugins_by_ref' : plugins_by_ref'[i].pc # old
                 /\ \A i \in DOMAIN plugins_by_id' : plugins_by_id'[i].pc # old
                 /\ old \notin ProvidersOf(dependencies_graph',
                                           dependencies_graph'.vertices)]_vars

-----------------------------------------------------------------------------
(***************************************************************************)
(* Graph.find_circular_rings: properties                                   *)
(***************************************************************************)
\* C19: on a fresh acyclic graph find_circular_rings() returns the empty
\* list (and is_circular() is false).
C19_NoRingInAcyclicGraph ==
    [][(rings' # NoRings /\ Fresh(graph) /\ Acyclic(graph))
          => (rings' = <<>> /\ ~IsCircular(rings'))]_vars

\* The graph is made of vertex-disjoint directed cycles of two vertices or
\* more, and of nothing else: every vertex is the tail of one edge and the
\* head of one edge, and no edge joins a vertex to itself.
DisjointCycles(g) ==
    /\ g.vertices # <<>>
    /\ \A e \in DOMAIN g.edges : g.edges[e].head # g.edges[e].tail
    /\ \A v \in Range(g.vertices) :
           /\ Cardinality({e \in DOMAIN g.edges : g.edges[e].tail = v}) = 1
           /\ Cardinality({e \in DOMAIN g.edges : g.edges[e].head = v}) = 1

\* The vertices of the cycle of v in such a graph.
RECURSIVE CycleOf(_, _, _)
CycleOf(g, v, seen) ==
    IF v \in seen THEN seen
    ELSE CycleOf(g,
                 g.edges[CHOOSE e \in DOMAIN g.edges : g.edges[e].tail = v].head,
                 seen \cup {v})

IsDirectedCycle(g, ring) ==
    /\ ring # <<>>
    /\ \A i \in DOMAIN ring :
           \E e \in DOMAIN g.edges :
               /\ g.edges[e].tail = ring[i]
               /\ g.edges[e].head = ring[(i % Len(ring)) + 1]

\* C21: every ring find_circular_rings() returned is a directed cycle of
\* the graph, with no vertex that lies off the cycle.
C21_RingsAreCycles ==
    rings # NoRings => \A i \in DOMAIN rings : IsDirectedCycle(graph, rings[i])

\* C22: on a fresh graph with an edge from a vertex v to itself,
\* find_circular_rings() returns the ring [v] among its rings and
\* is_circular() is true.
C22_SelfLoopIsARing ==
    [][(rings' # NoRings /\ Fresh(graph))
          => \A e \in DOMAIN graph.edges :
                 graph.edges[e].head = graph.edges[e].tail
                     => /\ \E i \in DOMAIN rings' : rings'[i] = <<graph.edges[e].head>>
                        /\ IsCircular(rings')]_vars

-----------------------------------------------------------------------------
(***************************************************************************)
(* termite.dependencies: properties of the graph and of the manager        *)
(***************************************************************************)
\* C23: reverese_dependency_order() comes to an end on every requirement
\* graph, one with a requirement cycle included: the nesting of __follow__
\* calls stays bounded and the call returns its list.
C23_OrderTerminates ==
    FirstOrderReturned => (pdm_result = OK /\ order # NotCalled)

\* The vertex objects that carry a mark.
MarkedVertices(g) == {v \in DOMAIN g.vmarks : g.vmarks[v].default # "None"}

\* C24: an iterator made on a fresh graph (the marked vertices are those
\* it has returned) returns no vertex twice, ends with StopIteration and
\* with nothing else, and has returned every vertex when it ends.
C24_IterationYieldsAll ==
    (iterator.active /\ MarkedVertices(graph) = Range(yielded))
        => /\ graph_result \in {OK, StopIteration}
           /\ Len(yielded) = Cardinality(Range(yielded))
           /\ graph_result = StopIteration => Range(yielded) = Range(graph.vertices)

\* C25: no call of require raises: none ends with the exception add_edge
\* raises for an edge that is stored already.
C25_RequireNeverRaises == pdm_result # EdgeExists

\* C26: the dependency graph holds at most one edge for a pair of head and
\* tail.
C26_OneEdgePerPair ==
    \A e1 \in DOMAIN dependencies_graph.edges, e2 \in DOMAIN dependencies_graph.edges :
        (/\ dependencies_graph.edges[e1].head = dependencies_graph.edges[e2].head
         /\ dependencies_graph.edges[e1].tail = dependencies_graph.edges[e2].tail)
            => e1 = e2

\* C27: under a version of a dependency a provider is listed at most once.
C27_ProviderListedOnce ==
    \A name \in Range(dependencies_graph.vertices) :
        \A i \in DOMAIN dependencies_graph.providers[name] :
            Len(dependencies_graph.providers[name][i].providers)
                = Cardinality(Range(dependencies_graph.providers[name][i].providers))

\* C28: add_provider for a name that is no vertex of the dependency graph
\* raises, and the graph (vertices, edges, providers, marks) is after the
\* call what it was before.
C28_UnknownProviderChangesNothing ==
    [][\A dep_name \in DepNames, version \in ProviderVersions :
           (/\ AddProvider(dep_name, version, "p")
            /\ dep_name \notin Range(dependencies_graph.vertices))
               => /\ pdm_result' = DependencyMissing
                  /\ dependencies_graph' = dependencies_graph]_vars

\* C28 witness: add_provider has raised on a graph that holds vertices, a
\* Require edge and a provider.
C28_Witness ==
    /\ pdm_result = DependencyMissing
    /\ Len(dependencies_graph.edges) >= 1
    /\ ProviderCount(dependencies_graph) >= 1
    /\ \E name \in DepNames : ~HasVertex(dependencies_graph, name)

\* No two vertices of the graph have the same name.
UniqueNames(g) ==
    \A i \in DOMAIN g.vertices, j \in DOMAIN g.vertices :
        NameOf(g.vertices[i]) = NameOf(g.vertices[j]) => i = j

\* C29: the names of the vertices of a Graph, and of the dependency graph
\* that dependency() fills, are unique; add_vertex with a vertex whose
\* name the graph holds raises and leaves the graph (vertices, edges and
\* the lists of the vertices) as it was.
C29_VertexNamesUnique ==
    [][/\ UniqueNames(graph')
       /\ UniqueNames(dependencies_graph')
       /\ \A vertex \in EndpointObjects :
              (GraphAddVertex(vertex) /\ VertexNamed(graph, NameOf(vertex)))
                  => (graph_result' = VertexExists /\ graph' = graph)]_vars

\* C29 witness: add_vertex has raised on a graph of two vertices and an
\* edge.
C29_Witness ==
    /\ graph_result = VertexExists
    /\ Len(graph.vertices) = 2
    /\ Len(graph.edges) >= 1

\* C30: the head and the tail of every edge of the graph are vertex
\* objects of graph.vertices, and the edge is in the edges lists of both.
C30_EdgesJoinGraphVertices ==
    \A e \in DOMAIN graph.edges :
        /\ graph.edges[e].head \in Range(graph.vertices)
        /\ graph.edges[e].tail \in Range(graph.vertices)
        /\ e \in Range(graph.incidence[graph.edges[e].head])
        /\ e \in Range(graph.incidence[graph.edges[e].tail])

-----------------------------------------------------------------------------
(***************************************************************************)
(* PluginContainer: the hooks that are not Plugin subclasses               *)
(***************************************************************************)
\* C31: a hook that is not a Plugin subclass is wrapped so that a missing
\* activate, deactivate or on_state_change is a no-op: a container whose only
\* hook lacks an activate method is Active after activate() called in
\* Installed.
C31_MissingActivateIsNoOp ==
    (/\ call.op = "activate"
     /\ call.from = STATE_INSTALLED
     /\ Len(plugin_hooks.items) = 1
     /\ HookInst(plugin_hooks.items[1]) = "Proxy"
     /\ ~HasAttribute(plugin_hooks.items[1], "activate"))
        => (call.result = OK /\ plugin_state = STATE_ACTIVE)

\* C38: whenever the container is Installed, Active or Deactivated,
\* plugin_hooks holds exactly one hook per class of the manifest's
\* plugin_classes, also after install, uninstall, install, so that activate()
\* invokes each declared hook once.
C38_OneHookPerClass ==
    plugin_state \in {STATE_INSTALLED, STATE_ACTIVE, STATE_DEACTIVATED}
        => /\ plugin_hooks.items = plugin_classes
           /\ (call.op = "activate" /\ call.raises = {})
                 => Len(CallsOf("activate")) = Len(plugin_classes)

-----------------------------------------------------------------------------
(***************************************************************************)
(* nanopp.platform.PluginContainer: properties                             *)
(***************************************************************************)
\* C39: in the nanopp PluginContainer, activate() called in Installed or in
\* Deactivated with hooks that return is accepted and ends in Active; only
\* in the other states is it refused with PluginLifecycleException.
C39_NanoppActivateGuard ==
    (call.op = "activate" /\ call.raises = {})
        => IF call.from \in {STATE_INSTALLED, STATE_DEACTIVATED}
           THEN call.result = OK /\ plugin_state = STATE_ACTIVE
           ELSE call.result = PluginLifecycleException

-----------------------------------------------------------------------------
(***************************************************************************)
(* RequiresEntry: properties                                               *)
(***************************************************************************)
\* C32: version_in_range(v) is true if and only if (the minimum is absent,
\* or v is above it, or v equals it and the minimum is inclusive) and (the
\* maximum is absent, or v is below it, or v equals it and the maximum is
\* inclusive), in the ordering the code compares versions with.
C32_VersionInRange ==
    in_range.version # None
        => LET v == in_range.version
               min_version == version_range[1][1]
               max_version == version_range[2][1]
           IN  in_range.result
                 <=> /\ \/ min_version = None
                        \/ StrLess(min_version, v)
                        \/ (v = min_version /\ version_range[1][2])
                     /\ \/ max_version = None
                        \/ StrLess(v, max_version)
                        \/ (v = max_version /\ version_range[2][2])

\* C32 witness: a version equal to the inclusive minimum and below the
\* maximum was found in range.
C32_Witness ==
    /\ in_range.version = version_range[1][1]
    /\ version_range[1][2]
    /\ version_range[2][1] # None
    /\ in_range.version # version_range[2][1]
    /\ in_range.result

\* C33: versions are ordered segment by segment, as numbers: 10.0.0 lies
\* inside the range [9.0.0, 11.0.0].
C33_NumericOrdering ==
    (/\ version_range = << <<<<"9", ".", "0", ".", "0">>, TRUE>>,
                           <<<<"1", "1", ".", "0", ".", "0">>, TRUE>> >>
     /\ in_range.version = <<"1", "0", ".", "0", ".", "0">>)
        => in_range.result

-----------------------------------------------------------------------------
(***************************************************************************)
(* DependenciesManager: the install order of any declarations              *)
(***************************************************************************)
\* dep_id was declared to depend on name
DependsOn(deps, dep_id, name) ==
    \E i \in DOMAIN deps : deps[i].name = dep_id /\ name \in Range(deps[i].depends_on)

\* a chain of at most n declarations leads from dep_id to name
RECURSIVE ReachesIn(_, _, _, _)
ReachesIn(deps, dep_id, name, n) ==
    /\ n > 0
    /\ \/ DependsOn(deps, dep_id, name)
       \/ \E i \in DOMAIN deps :
              /\ DependsOn(deps, dep_id, deps[i].name)
              /\ ReachesIn(deps, deps[i].name, name, n - 1)

\* The declarations are acyclic and every name they depend on is declared.
AcyclicAndComplete(deps) ==
    /\ \A i \in DOMAIN deps : ~ReachesIn(deps, deps[i].name, deps[i].name, Len(deps))
    /\ \A i \in DOMAIN deps : \A name \in Range(deps[i].depends_on) : Registered(deps, name)

\* No declaration names the same id twice in its depends_on list.
NoRepeatedName(deps) ==
    \A i \in DOMAIN deps :
        Cardinality(Range(deps[i].depends_on)) = Len(deps[i].depends_on)

\* The call returned every declared id exactly once, each after all the ids
\* of its depends_on list.
OrderedInstall(deps) ==
    /\ dm_result.result = OK
    /\ install_order # NotCalled
    /\ Len(install_order) = Len(deps)
    /\ Range(install_order) = {deps[i].name : i \in DOMAIN deps}
    /\ \A i \in DOMAIN deps : \A name \in Range(deps[i].depends_on) :
           PlaceIn(install_order, name) < PlaceIn(install_order, deps[i].name)

-----------------------------------------------------------------------------
-----------------------------------------------------------------------------
(***************************************************************************)
(* Graph: a search repeated, or made after an iteration                    *)
(***************************************************************************)
\* A fresh copy of the graph: the same vertices and edges, no mark.
FreshCopy(g) == [g EXCEPT !.vmarks = [v \in DOMAIN g.vmarks |-> NoMark]]

\* C36: what find_circular_rings() returns depends only on the vertices and
\* edges of the graph: a second call on the unchanged graph, or a call made
\* after the graph was iterated, returns the cycles that a call on a fresh
\* copy of the graph returns.
C36_RingsDependOnGraphOnly ==
    rings # NoRings
        => /\ rings = FindCircularRingsOf(FreshCopy(graph)).rings
           /\ IsCircular(rings) = IsCircular(FindCircularRingsOf(FreshCopy(graph)).rings)

-----------------------------------------------------------------------------
(***************************************************************************)
(* PluginDependenciesManager: the order asked for again                    *)
(***************************************************************************)
\* C37: reverese_dependency_order() called again on the unchanged graph
\* returns the order that the call before returned, and a call made after
\* further dependency()/require() registrations returns, on an acyclic
\* graph, every vertex exactly once with the head of every Require edge
\* before its tail.
C37_OrderRepeatable ==
    [][ReverseDependencyOrderAgain
          => /\ order # NotCalled => order' = order
             /\ Acyclic(dependencies_graph)
                  => /\ pdm_result' = OK
                     /\ Len(order') = Len(dependencies_graph.vertices)
                     /\ Range(order') = Range(dependencies_graph.vertices)
                     /\ \A e \in DOMAIN dependencies_graph.edges :
                            PlaceIn(order', dependencies_graph.edges[e].head)
                                < PlaceIn(order', dependencies_graph.edges[e].tail)]_vars

====
